---- MODULE Spec2Model ----
(***************************************************************************)
(* A model of eventblaster: the task orchestrator (main.go), the           *)
(* registration worker (worker.go) and the Telegram control plane          *)
(* (telegram_bot.go).                                                      *)
(*                                                                         *)
(* Every Orchestrator run lives in a slot of `runs`.  SpecRun starts one   *)
(* run the way main() does (CLI mode); SpecBot starts runs from the bot's  *)
(* /register handler.  Both use the same Run and worker actions.           *)
(***************************************************************************)
EXTENDS Integers, Sequences, FiniteSets, TLC

VARIABLES
    runs,         \* slot -> one RegistrationOrchestrator.Run call and its goroutines
    campaign,     \* TelegramBot.campaign (CampaignManager): running, startTime, results
    userConfigs,  \* TelegramBot.userConfigs: chat id -> UserConfig
    files,        \* the file system: path -> list of lines, or NoFile
    loop,         \* the command loop (TelegramBot.Start): where handleMessage stands
    clock,        \* time.Now(), as a logical clock
    sent,         \* the last message the command loop sent with sendMessage
    stopSeen      \* history: the runs that were in flight when a /stop was accepted

vars == <<runs, campaign, userConfigs, files, loop, clock, sent, stopSeen>>

botVars == <<campaign, userConfigs, files, loop, clock, sent, stopSeen>>

-----------------------------------------------------------------------------
(* Bounds of the model *)

MaxT == 2          \* event URLs of a CLI run: 0..MaxT
MaxI == 2          \* emails of a CLI run: 0..MaxI
MaxJobs == 2       \* a CLI run has at most MaxJobs = T*I jobs
MaxC == 2
MaxP == 2          \* workers of a CLI run: 1..MaxC

(* Program constants *)

RegistrationRetry == 3    \* config.RegistrationRetry
EventDisplayLen == 20     \* truncateString(lastPathSegment(eventURL), 20)
BackoffBase == 3          \* pow(3, attempt)

-----------------------------------------------------------------------------
(* Strings the code takes apart are sequences of one-character strings. *)

Url1 == <<"h", ":", "/", "/", "x", "/", "e", "1">>
Url2 == <<"h", ":", "/", "/", "y", "/", "e", "1", "/">>
Url3 == <<"h", ":", "/", "/", "z", "/",
          "a", "b", "c", "d", "e", "f", "g", "h", "i", "j", "k",
          "l", "m", "n", "o", "p", "q", "r", "s", "t", "u", "v">>

\* The pools the inputs are drawn from.  Url1 and Url2 have the same last
\* path segment; EmailList repeats an address (duplicates are allowed).
TargetList == <<Url1, Url2, Url3, Url1>>
EmailList == <<"a@x.io", "a@x.io", "b@x.io", "c@x.io">>
ProxyList == <<[Server |-> "http://p1:80", Username |-> "", Password |-> ""],
               [Server |-> "http://p2:80", Username |-> "u", Password |-> "p"],
               [Server |-> "http://p3:80", Username |-> "", Password |-> ""]>>

NoProxy == [Server |-> "", Username |-> "", Password |-> ""]

Prefix(s, n) == SubSeq(s, 1, n)

Min(a, b) == IF a < b THEN a ELSE b

\* utils.go truncateString
truncateString(s, maxLen) ==
    IF Len(s) <= maxLen THEN s ELSE SubSeq(s, 1, maxLen)

\* utils.go lastPathSegment.  TrimSlash is strings.TrimSuffix(url, "/");
\* LastSlash is the start of the last "/"-separated part of s
\* (strings.Split, last part)
lastPathSegment(url) ==
    LET TrimSlash(s) ==
            IF Len(s) > 0 /\ s[Len(s)] = "/" THEN SubSeq(s, 1, Len(s) - 1)
            ELSE s
        LastSlash(s) ==
            LET at == {i \in 1..Len(s) : s[i] = "/"}
            IN  IF at = {} THEN 0 ELSE CHOOSE i \in at : \A j \in at : j <= i
        t == TrimSlash(url)
    IN  SubSeq(t, LastSlash(t) + 1, Len(t))

\* Mutant: the product instead of the power
powTimes(base, exp) == base * exp

RECURSIVE pow(_, _)
\* utils.go pow
pow(base, exp) == IF exp = 0 THEN 1 ELSE base * pow(base, exp - 1)

-----------------------------------------------------------------------------
(* worker.go: RegistrationWorker *)

\* A worker goroutine of Run: at "idle" it waits on `range jobs`; "try",
\* "sleep", "alert" and "exit" are places inside ExecuteRegistration; "done"
\* is after wg.Done().
IdleWorker ==
    [pc |-> "idle",
     job |-> [eventURL |-> <<>>, email |-> "", workerID |-> 0, idx |-> -1],
     attempt |-> 0, message |-> ""]

\* Mutant: the first proxy of the list, whoever the worker is
SelectProxyFirst(workerID, proxies) ==
    IF Len(proxies) > 0 THEN proxies[1] ELSE NoProxy

\* worker.go:30-33: the proxy ExecuteRegistration uses
SelectProxy(workerID, proxies) ==
    IF Len(proxies) > 0 THEN proxies[(workerID % Len(proxies)) + 1] ELSE NoProxy

\* Mutant: the attempt number is counted from 0
SuccessResultZeroBased(job, attempt, message) ==
    [Email |-> job.email,
     Event |-> truncateString(lastPathSegment(job.eventURL), EventDisplayLen),
     Status |-> "SUCCESS", Attempt |-> attempt - 1, Message |-> message]

\* worker.go:41-48
SuccessResult(job, attempt, message) ==
    [Email |-> job.email,
     Event |-> truncateString(lastPathSegment(job.eventURL), EventDisplayLen),
     Status |-> "SUCCESS", Attempt |-> attempt, Message |-> message]

\* worker.go:66-73
FailedResult(job) ==
    [Email |-> job.email,
     Event |-> truncateString(lastPathSegment(job.eventURL), EventDisplayLen),
     Status |-> "FAILED", Attempt |-> RegistrationRetry,
     Message |-> "Max retries exceeded"]

\* Mutant: the final failure raises no alert
AfterFailureNoAlert(attempt, telegramChatID) ==
    IF attempt < RegistrationRetry THEN "sleep" ELSE "exit"

\* Mutant: the alert is raised one attempt early
AfterFailureAlertEarly(attempt, telegramChatID) ==
    IF attempt < RegistrationRetry - 1 THEN "sleep"
    ELSE IF telegramChatID # "" THEN "alert"
    ELSE "exit"

\* worker.go:53-63: where a failed attempt leads: the backoff sleep, the
\* alert of the final failure, or straight out of the loop
AfterFailure(attempt, telegramChatID) ==
    IF attempt < RegistrationRetry THEN "sleep"
    ELSE IF telegramChatID # "" THEN "alert"
    ELSE "exit"

\* History of one job: every call of tryRegistration, every backoff sleep,
\* every alert handed to sendTelegramAlert, how often the job was received
\* from the job channel and every result returned for it.
NoHist == [tries |-> <<>>, sleeps |-> <<>>, alerts |-> <<>>, taken |-> 0,
           results |-> <<>>]

-----------------------------------------------------------------------------
(* main.go: RegistrationOrchestrator.Run *)

Slots == {1, 2}

\* main.go:191-201
NewRegistrationOrchestrator(firstName, lastName, organization, headless, maxWorkers, telegramChatID) ==
    [firstName |-> firstName, lastName |-> lastName,
     organization |-> organization, headless |-> headless,
     maxWorkers |-> maxWorkers, telegramChatID |-> telegramChatID]

\* The start of Run (main.go:203-245): the channels are made and maxWorkers
\* worker goroutines are started.  chat is the bot chat the run belongs to
\* (runCampaign's chatID), 0 for a run main() started.
NewRun(o, eventURLs, emails, proxies) ==
    [pc |-> "enqueue",
     eventURLs |-> eventURLs, emails |-> emails, proxies |-> proxies,
     firstName |-> o.firstName, lastName |-> o.lastName,
     organization |-> o.organization,
     maxWorkers |-> o.maxWorkers, telegramChatID |-> o.telegramChatID,
     chat |-> 0,
     totalTasks |-> Len(eventURLs) * Len(emails),
     jobs |-> <<>>, jobsClosed |-> FALSE, jobIndex |-> 0,
     results |-> <<>>, resultsClosed |-> FALSE,
     wk |-> [w \in 0..(o.maxWorkers - 1) |-> IdleWorker],
     allResults |-> <<>>, completed |-> 0, successCount |-> 0,
     hist |-> [j \in 0..(Len(eventURLs) * Len(emails) - 1) |-> NoHist]]

FreeRun ==
    [NewRun(NewRegistrationOrchestrator("", "", "", TRUE, 0, ""), <<>>, <<>>, <<>>)
        EXCEPT !.pc = "free"]

Workers(k) == DOMAIN runs[k].wk

\* Mutant: the jobs are enumerated identity by identity
JobAtIdentityMajor(r, jobIndex) ==
    [eventURL |-> r.eventURLs[(jobIndex % Len(r.eventURLs)) + 1],
     email |-> r.emails[(jobIndex \div Len(r.eventURLs)) + 1],
     workerID |-> jobIndex % r.maxWorkers,
     idx |-> jobIndex]

\* main.go:249-257: the job enqueued at position jobIndex (target-major)
JobAt(r, jobIndex) ==
    [eventURL |-> r.eventURLs[(jobIndex \div Len(r.emails)) + 1],
     email |-> r.emails[(jobIndex % Len(r.emails)) + 1],
     workerID |-> jobIndex % r.maxWorkers,
     idx |-> jobIndex]

\* main.go:251: jobs <- job{...}
Enqueue(k) ==
    LET r == runs[k] IN
    /\ r.pc = "enqueue"
    /\ r.jobIndex < r.totalTasks
    /\ Len(r.jobs) < r.totalTasks
    /\ runs' = [runs EXCEPT ![k].jobs = Append(@, JobAt(r, r.jobIndex)),
                            ![k].jobIndex = @ + 1]
    /\ UNCHANGED botVars

\* main.go:259: close(jobs), then the collector loop starts
CloseJobs(k) ==
    LET r == runs[k] IN
    /\ r.pc = "enqueue"
    /\ r.jobIndex = r.totalTasks
    /\ runs' = [runs EXCEPT ![k].jobsClosed = TRUE, ![k].pc = "collect"]
    /\ UNCHANGED botVars

\* Mutant: the worker reads the head of the job channel and leaves it there
TakeKeepsJob(k, w) ==
    LET r == runs[k] IN
    /\ r.pc \in {"enqueue", "collect"}
    /\ r.wk[w].pc = "idle"
    /\ Len(r.jobs) > 0
    /\ LET job == Head(r.jobs) IN
       runs' = [runs EXCEPT
                  ![k].wk[w] = [pc |-> "try", job |-> job, attempt |-> 1,
                                message |-> ""],
                  ![k].hist[job.idx].taken = @ + 1]
    /\ UNCHANGED botVars

\* main.go:234: a worker receives the next job from `range jobs`;
\* worker.go:29-36: ExecuteRegistration starts with attempt 1
Take(k, w) ==
    LET r == runs[k] IN
    /\ r.pc \in {"enqueue", "collect"}
    /\ r.wk[w].pc = "idle"
    /\ Len(r.jobs) > 0
    /\ LET job == Head(r.jobs) IN
       runs' = [runs EXCEPT
                  ![k].jobs = Tail(@),
                  ![k].wk[w] = [pc |-> "try", job |-> job, attempt |-> 1,
                                message |-> ""],
                  ![k].hist[job.idx].taken = @ + 1]
    /\ UNCHANGED botVars

\* Mutant: the send replaces what the channel holds
SendResultOverwrite(r, w, result) ==
    [r EXCEPT !.results = <<result>>,
              !.wk[w] = IdleWorker,
              !.hist[r.wk[w].job.idx].results = Append(@, result)]

\* main.go:242: results <- result
SendResult(r, w, result) ==
    [r EXCEPT !.results = Append(@, result),
              !.wk[w] = IdleWorker,
              !.hist[r.wk[w].job.idx].results = Append(@, result)]

\* worker.go:37-63: one call of tryRegistration and what follows it in the
\* loop body.  success is the attempt capability's answer.
Try(k, w, success) ==
    LET r == runs[k]
        me == r.wk[w]
        message == IF success THEN "Success: ok" ELSE "Error: no"
        tried == [r EXCEPT !.hist[me.job.idx].tries =
                     Append(@, [attempt |-> me.attempt, success |-> success,
                                proxy |-> SelectProxy(w, r.proxies)])]
    IN
    /\ me.pc = "try"
    /\ IF success
       THEN /\ Len(r.results) < r.totalTasks
            /\ runs' = [runs EXCEPT ![k] =
                          SendResult(tried, w,
                                     SuccessResult(me.job, me.attempt, message))]
       ELSE runs' = [runs EXCEPT ![k] =
                       [tried EXCEPT
                          !.wk[w].pc = AfterFailure(me.attempt, r.telegramChatID),
                          !.wk[w].message = message]]
    /\ UNCHANGED botVars

\* Mutant: the next attempt is made without the backoff sleep
SleepSkipsBackoff(k, w) ==
    /\ runs[k].wk[w].pc = "sleep"
    /\ runs' = [runs EXCEPT ![k].wk[w].pc = "try",
                            ![k].wk[w].attempt = @ + 1]
    /\ UNCHANGED botVars

\* worker.go:54-56: time.Sleep(pow(3, attempt) seconds), then the next attempt
Sleep(k, w) ==
    LET r == runs[k]
        me == r.wk[w]
    IN
    /\ me.pc = "sleep"
    /\ runs' = [runs EXCEPT
                  ![k].wk[w].pc = "try",
                  ![k].wk[w].attempt = @ + 1,
                  ![k].hist[me.job.idx].sleeps =
                      Append(@, pow(BackoffBase, me.attempt))]
    /\ UNCHANGED botVars

\* Mutant: an alert that is not delivered ends the job without a result
AlertAbortsUndelivered(k, w, delivered) ==
    LET r == runs[k]
        me == r.wk[w]
    IN
    /\ me.pc = "alert"
    /\ runs' = [runs EXCEPT
                  ![k].wk[w] = IF delivered THEN [me EXCEPT !.pc = "exit"]
                               ELSE IdleWorker,
                  ![k].hist[me.job.idx].alerts =
                      Append(@, [attempt |-> me.attempt,
                                 reason |-> me.message,
                                 chatID |-> r.telegramChatID,
                                 delivered |-> delivered])]
    /\ UNCHANGED botVars

\* worker.go:59-62 and utils.go sendTelegramAlert: the alert of the final
\* failure; delivered is whether Telegram took it (the caller ignores it)
Alert(k, w, delivered) ==
    LET r == runs[k]
        me == r.wk[w]
    IN
    /\ me.pc = "alert"
    /\ runs' = [runs EXCEPT
                  ![k].wk[w].pc = "exit",
                  ![k].hist[me.job.idx].alerts =
                      Append(@, [attempt |-> me.attempt,
                                 reason |-> me.message,
                                 chatID |-> r.telegramChatID,
                                 delivered |-> delivered])]
    /\ UNCHANGED botVars

\* worker.go:66-73 and main.go:242: the loop is left and the FAILED result
\* is returned and sent
ReturnFailed(k, w) ==
    LET r == runs[k]
        me == r.wk[w]
    IN
    /\ me.pc = "exit"
    /\ Len(r.results) < r.totalTasks
    /\ runs' = [runs EXCEPT ![k] = SendResult(r, w, FailedResult(me.job))]
    /\ UNCHANGED botVars

\* main.go:234,231: `range jobs` ends on the closed, empty channel; wg.Done()
WorkerExit(k, w) ==
    LET r == runs[k] IN
    /\ r.wk[w].pc = "idle"
    /\ r.jobsClosed
    /\ Len(r.jobs) = 0
    /\ runs' = [runs EXCEPT ![k].wk[w].pc = "done"]
    /\ UNCHANGED botVars

\* Mutant: the result channel is closed without waiting for the workers
CloseResultsNoWait(k) ==
    LET r == runs[k] IN
    /\ r.pc = "collect"
    /\ ~r.resultsClosed
    /\ runs' = [runs EXCEPT ![k].resultsClosed = TRUE]
    /\ UNCHANGED botVars

\* main.go:262-265: wg.Wait(); close(results)
CloseResults(k) ==
    LET r == runs[k] IN
    /\ r.pc = "collect"
    /\ ~r.resultsClosed
    /\ \A w \in DOMAIN r.wk : r.wk[w].pc = "done"
    /\ runs' = [runs EXCEPT ![k].resultsClosed = TRUE]
    /\ UNCHANGED botVars

\* Mutant: every received result counts as a success
CollectCountsAll(k) ==
    LET r == runs[k] IN
    /\ r.pc = "collect"
    /\ Len(r.results) > 0
    /\ runs' = [runs EXCEPT
                  ![k].results = Tail(@),
                  ![k].allResults = Append(@, Head(r.results)),
                  ![k].completed = @ + 1,
                  ![k].successCount = @ + 1]
    /\ UNCHANGED botVars

\* Mutant: the collector stores each result in the campaign state as it
\* arrives
CollectPublishes(k) ==
    LET r == runs[k] IN
    /\ r.pc = "collect"
    /\ Len(r.results) > 0
    /\ LET result == Head(r.results) IN
       /\ runs' = [runs EXCEPT
                     ![k].results = Tail(@),
                     ![k].allResults = Append(@, result),
                     ![k].completed = @ + 1,
                     ![k].successCount =
                         IF result.Status = "SUCCESS" THEN @ + 1 ELSE @]
       /\ campaign' = [campaign EXCEPT !.results = Append(runs[k].allResults, result)]
    /\ UNCHANGED <<userConfigs, files, loop, clock, sent, stopSeen>>

\* main.go:271-280: one turn of `for result := range results`
Collect(k) ==
    LET r == runs[k] IN
    /\ r.pc = "collect"
    /\ Len(r.results) > 0
    /\ LET result == Head(r.results) IN
       runs' = [runs EXCEPT
                  ![k].results = Tail(@),
                  ![k].allResults = Append(@, result),
                  ![k].completed = @ + 1,
                  ![k].successCount =
                      IF result.Status = "SUCCESS" THEN @ + 1 ELSE @]
    /\ UNCHANGED botVars

\* main.go:271,282-285: the loop ends on the closed, drained channel and Run
\* returns allResults
Return(k) ==
    LET r == runs[k] IN
    /\ r.pc = "collect"
    /\ r.resultsClosed
    /\ Len(r.results) = 0
    /\ runs' = [runs EXCEPT ![k].pc = "returned"]
    /\ UNCHANGED botVars

RunStep(k) ==
    \/ Enqueue(k)
    \/ CloseJobs(k)
    \/ \E w \in Workers(k) : Take(k, w)
    \/ \E w \in Workers(k), success \in BOOLEAN : Try(k, w, success)
    \/ \E w \in Workers(k) : Sleep(k, w)
    \/ \E w \in Workers(k), delivered \in BOOLEAN : Alert(k, w, delivered)
    \/ \E w \in Workers(k) : ReturnFailed(k, w)
    \/ \E w \in Workers(k) : WorkerExit(k, w)
    \/ CloseResults(k)
    \/ Collect(k)
    \/ Return(k)

-----------------------------------------------------------------------------
(* telegram_bot.go: texts and files *)

\* A message text is the sequence of its whitespace-separated fields
\* (strings.TrimSpace, strings.Fields), each a sequence of characters; the
\* empty text is <<>>.
CmdStart == <<"/", "s", "t", "a", "r", "t">>
CmdHelp == <<"/", "h", "e", "l", "p">>
CmdSetup == <<"/", "s", "e", "t", "u", "p">>
CmdWorkers == <<"/", "w", "o", "r", "k", "e", "r", "s">>
CmdStatus == <<"/", "s", "t", "a", "t", "u", "s">>
CmdRegister == <<"/", "r", "e", "g", "i", "s", "t", "e", "r">>
CmdStop == <<"/", "s", "t", "o", "p">>
CmdResults == <<"/", "r", "e", "s", "u", "l", "t", "s">>
CmdStats == <<"/", "s", "t", "a", "t", "s">>
CmdConfig == <<"/", "c", "o", "n", "f", "i", "g">>

Ann == <<<<"A", "n", "n">>>>
Lee == <<<<"L", "e", "e">>>>
Org == <<<<"O", "r", "g">>>>

\* strings.HasPrefix
HasPrefix(s, prefix) ==
    Len(s) >= Len(prefix) /\ SubSeq(s, 1, Len(prefix)) = prefix

\* strings.Contains
Contains(s, sub) ==
    \E i \in 0..(Len(s) - Len(sub)) : SubSeq(s, i + 1, i + Len(sub)) = sub

DigitValue(c) ==
    CASE c = "0" -> 0 [] c = "1" -> 1 [] c = "2" -> 2 [] c = "3" -> 3
      [] c = "4" -> 4 [] c = "5" -> 5 [] c = "6" -> 6 [] c = "7" -> 7
      [] c = "8" -> 8 [] c = "9" -> 9 [] OTHER -> -1

RECURSIVE DigitsValue(_)
DigitsValue(s) ==
    IF s = <<>> THEN 0
    ELSE 10 * DigitsValue(SubSeq(s, 1, Len(s) - 1)) + DigitValue(s[Len(s)])

\* strconv.Atoi: an optional sign and at least one decimal digit
Atoi(s) ==
    LET signed == Len(s) > 0 /\ s[1] \in {"+", "-"}
        digits == IF signed THEN Tail(s) ELSE s
        ok == digits # <<>> /\ \A i \in 1..Len(digits) : DigitValue(digits[i]) >= 0
    IN  [err |-> ~ok,
         value |-> IF ~ok THEN 0
                   ELSE IF signed /\ s[1] = "-" THEN 0 - DigitsValue(digits)
                   ELSE DigitsValue(digits)]

\* What the file system holds at a path with no file: no list of lines
NoFile == <<"ENOENT">>

NoDoc == [FileName |-> <<>>, lines |-> <<>>, reachable |-> FALSE]

TextMessage(text) == [Document |-> NoDoc, Text |-> text]

\* fmt.Sprintf("emails_%d.txt", chatID) and the like (telegram_bot.go:110-112)
EmailsPath(chatID) == <<"emails_", chatID, ".txt">>
EventsPath(chatID) == <<"events_", chatID, ".txt">>
ProxiesPath == <<"proxies.txt">>

-----------------------------------------------------------------------------
(* part_000: the proxy parser.  A line is a sequence of characters. *)

\* strings.ToLower, for the letters written in upper case here
ToLower(s) ==
    LET LowerChar(c) ==
            CASE c = "E" -> "e" [] c = "M" -> "m" [] c = "A" -> "a"
              [] c = "I" -> "i" [] c = "L" -> "l" [] c = "P" -> "p"
              [] c = "R" -> "r" [] c = "O" -> "o" [] c = "X" -> "x"
              [] c = "Y" -> "y" [] c = "V" -> "v" [] c = "N" -> "n"
              [] c = "T" -> "t" [] c = "S" -> "s" [] OTHER -> c
    IN  [i \in 1..Len(s) |-> LowerChar(s[i])]

SetMin(S) == CHOOSE x \in S : \A y \in S : x <= y

SetMax(S) == CHOOSE x \in S : \A y \in S : x >= y

\* strings.TrimSpace
TrimSpace(s) ==
    LET inked == {i \in 1..Len(s) : s[i] # " "} IN
    IF inked = {} THEN <<>> ELSE SubSeq(s, SetMin(inked), SetMax(inked))

\* strings.Index and strings.LastIndex: from 0, -1 when there is none
Index(s, sub) ==
    LET at == {i \in 0..(Len(s) - Len(sub)) : SubSeq(s, i + 1, i + Len(sub)) = sub}
    IN  IF at = {} THEN -1 ELSE SetMin(at)

LastIndex(s, sub) ==
    LET at == {i \in 0..(Len(s) - Len(sub)) : SubSeq(s, i + 1, i + Len(sub)) = sub}
    IN  IF at = {} THEN -1 ELSE SetMax(at)

\* s[from:] and s[:to] of Go
From(s, from) == SubSeq(s, from + 1, Len(s))

UpTo(s, to) == SubSeq(s, 1, to)

\* strings.Split with a separator that is not empty
RECURSIVE Split(_, _)
Split(s, sep) ==
    IF Index(s, sep) = -1 THEN <<s>>
    ELSE <<UpTo(s, Index(s, sep))>> \o Split(From(s, Index(s, sep) + Len(sep)), sep)

\* The first result of strings.Cut
Before(s, sep) == IF Index(s, sep) = -1 THEN s ELSE UpTo(s, Index(s, sep))

IsDigit(c) == DigitValue(c) >= 0

IsLetter(c) == c \in {"a", "h", "p", "s", "t", "u", "x", "P"}

\* net/url getScheme: the scheme and the rest, or an error when the URL
\* begins with a colon
getScheme(rawURL) ==
    LET stop == {i \in 1..Len(rawURL) :
                    ~(\/ IsLetter(rawURL[i])
                      \/ i > 1 /\ (IsDigit(rawURL[i]) \/ rawURL[i] \in {"+", "-", "."}))}
        n == IF stop = {} THEN 0 ELSE SetMin(stop)
    IN  IF n = 0 \/ rawURL[n] # ":"
        THEN [err |-> FALSE, scheme |-> <<>>, rest |-> rawURL]
        ELSE IF n = 1
        THEN [err |-> TRUE, scheme |-> <<>>, rest |-> <<>>]
        ELSE [err |-> FALSE, scheme |-> UpTo(rawURL, n - 1), rest |-> From(rawURL, n)]

\* net/url validOptionalPort: empty, or a colon and digits
validOptionalPort(port) ==
    \/ port = <<>>
    \/ port[1] = ":" /\ \A i \in 2..Len(port) : IsDigit(port[i])

\* net/url parseHost: whether the host is taken; HostChar is the characters
\* net/url takes in a host
parseHost(host) ==
    LET HostChar(c) ==
            IsLetter(c) \/ IsDigit(c)
               \/ c \in {"-", ".", "+", ":", "[", "]", "(", ")"}
    IN
    /\ IF host # <<>> /\ host[1] = "["
       THEN /\ LastIndex(host, <<"]">>) # -1
            /\ validOptionalPort(From(host, LastIndex(host, <<"]">>) + 1))
       ELSE LastIndex(host, <<":">>) # -1
               => validOptionalPort(From(host, LastIndex(host, <<":">>)))
    /\ \A i \in 1..Len(host) : HostChar(host[i])

NoURL ==
    [err |-> TRUE, Scheme |-> <<>>, Host |-> <<>>, User |-> FALSE,
     Username |-> <<>>, Password |-> <<>>]

\* net/url parseAuthority; UserinfoChar is the characters net/url takes in
\* the user information
parseAuthority(scheme, authority) ==
    LET UserinfoChar(c) ==
            IsLetter(c) \/ IsDigit(c) \/ c \in {"-", ".", "+", ":", "(", ")", "@"}
        i == LastIndex(authority, <<"@">>)
        host == IF i = -1 THEN authority ELSE From(authority, i + 1)
        userinfo == IF i = -1 THEN <<>> ELSE UpTo(authority, i)
        colon == Index(userinfo, <<":">>)
    IN  IF ~parseHost(host) THEN NoURL
        ELSE IF i = -1
        THEN [err |-> FALSE, Scheme |-> scheme, Host |-> host, User |-> FALSE,
              Username |-> <<>>, Password |-> <<>>]
        ELSE IF \E j \in 1..Len(userinfo) : ~UserinfoChar(userinfo[j])
        THEN NoURL
        ELSE [err |-> FALSE, Scheme |-> scheme, Host |-> host, User |-> TRUE,
              Username |-> IF colon = -1 THEN userinfo ELSE UpTo(userinfo, colon),
              Password |-> IF colon = -1 THEN <<>> ELSE From(userinfo, colon + 1)]

\* net/url Parse, called at part_000:157: the fragment and the query are
\* cut off, then the scheme, then the authority after "//"
urlParse(rawURL) ==
    LET s == getScheme(Before(rawURL, <<"#">>))
        scheme == ToLower(s.scheme)
        rest == IF s.rest # <<>> /\ s.rest[Len(s.rest)] = "?"
                   /\ Index(s.rest, <<"?">>) = Len(s.rest) - 1
                THEN UpTo(s.rest, Len(s.rest) - 1)
                ELSE Before(s.rest, <<"?">>)
        noHost == [err |-> FALSE, Scheme |-> scheme, Host |-> <<>>, User |-> FALSE,
                   Username |-> <<>>, Password |-> <<>>]
    IN  IF s.err THEN NoURL
        ELSE IF ~HasPrefix(rest, <<"/">>)
        THEN IF scheme = <<>> /\ Contains(Before(rest, <<"/">>), <<":">>)
             THEN NoURL
             ELSE noHost
        ELSE IF /\ scheme # <<>> \/ ~HasPrefix(rest, <<"/", "/", "/">>)
                /\ HasPrefix(rest, <<"/", "/">>)
        THEN parseAuthority(scheme, Before(From(rest, 2), <<"/">>))
        ELSE noHost

\* net/url splitHostPort, behind URL.Hostname and URL.Port
splitHostPort(hostPort) ==
    LET colon == LastIndex(hostPort, <<":">>)
        split == colon # -1 /\ validOptionalPort(From(hostPort, colon))
        host == IF split THEN UpTo(hostPort, colon) ELSE hostPort
    IN  [host |-> IF Len(host) >= 2 /\ host[1] = "[" /\ host[Len(host)] = "]"
                  THEN SubSeq(host, 2, Len(host) - 1)
                  ELSE host,
         port |-> IF split THEN From(hostPort, colon + 1) ELSE <<>>]

ProxyConfig(server, username, password) ==
    [Server |-> server, Username |-> username, Password |-> password]

\* fmt.Sprintf("http://%s:%s", host, port)
HttpServer(host, port) ==
    <<"h", "t", "t", "p", ":", "/", "/">> \o host \o <<":">> \o port

\* parseProxyLine, part_000:156-173: the line with "://"
parseProxyURL(s) ==
    LET u == urlParse(s)
        hp == splitHostPort(u.Host)
    IN  IF u.err \/ hp.host = <<>> \/ hp.port = <<>> THEN <<>>
        ELSE <<ProxyConfig(u.Scheme \o <<":", "/", "/">> \o hp.host \o <<":">> \o hp.port,
                           IF u.User THEN u.Username ELSE <<>>,
                           IF u.User THEN u.Password ELSE <<>>)>>

\* Mutant: the fourth field is looked at before the second
parseProxyFieldsPortLast(s) ==
    LET parts == Split(s, <<":">>) IN
    IF Len(parts) = 4 /\ ~Atoi(parts[4]).err
    THEN <<ProxyConfig(HttpServer(parts[3], parts[4]), parts[1], parts[2])>>
    ELSE IF Len(parts) = 4 /\ ~Atoi(parts[2]).err
    THEN <<ProxyConfig(HttpServer(parts[1], parts[2]), parts[3], parts[4])>>
    ELSE IF Len(parts) = 2 /\ ~Atoi(parts[2]).err
    THEN <<ProxyConfig(HttpServer(parts[1], parts[2]), <<>>, <<>>)>>
    ELSE <<>>

\* parseProxyLine, part_000:193-222: the line split at its colons
parseProxyFields(s) ==
    LET parts == Split(s, <<":">>) IN
    IF Len(parts) = 4 /\ ~Atoi(parts[2]).err
    THEN <<ProxyConfig(HttpServer(parts[1], parts[2]), parts[3], parts[4])>>
    ELSE IF Len(parts) = 4 /\ ~Atoi(parts[4]).err
    THEN <<ProxyConfig(HttpServer(parts[3], parts[4]), parts[1], parts[2])>>
    ELSE IF Len(parts) = 2 /\ ~Atoi(parts[2]).err
    THEN <<ProxyConfig(HttpServer(parts[1], parts[2]), <<>>, <<>>)>>
    ELSE <<>>

\* parseProxyLine, part_000:176-191: the line with "@"; <<>> when the line
\* goes on to the colon rules
parseProxyAt(s) ==
    LET parts == Split(s, <<"@">>)
        userPass == Split(parts[1], <<":">>)
        hostPort == Split(parts[2], <<":">>)
    IN  IF Len(parts) = 2 /\ Len(userPass) = 2 /\ Len(hostPort) = 2
           /\ ~Atoi(hostPort[2]).err
        THEN <<ProxyConfig(HttpServer(hostPort[1], hostPort[2]),
                           userPass[1], userPass[2])>>
        ELSE <<>>

\* parseProxyLine, part_000:147-153: the text of a markdown link
Unwrap(s) ==
    IF /\ Contains(s, <<"[">>)
       /\ Contains(s, <<"]", "(">>)
       /\ Index(s, <<"]">>) > Index(s, <<"[">>)
    THEN SubSeq(s, Index(s, <<"[">>) + 2, Index(s, <<"]">>))
    ELSE s

\* Mutant: a line starting with "#" is parsed like any other
parseProxyLineReadsComments(line) ==
    LET s == Unwrap(TrimSpace(line)) IN
    IF TrimSpace(line) = <<>> THEN <<>>
    ELSE IF Contains(s, <<":", "/", "/">>) THEN parseProxyURL(s)
    ELSE IF Contains(s, <<"@">>) /\ parseProxyAt(s) # <<>> THEN parseProxyAt(s)
    ELSE parseProxyFields(s)

\* parseProxyLine (part_000:140-224): no ProxyConfig, or one
parseProxyLine(line) ==
    LET s == Unwrap(TrimSpace(line)) IN
    IF TrimSpace(line) = <<>> \/ TrimSpace(line)[1] = "#" THEN <<>>
    ELSE IF Contains(s, <<":", "/", "/">>) THEN parseProxyURL(s)
    ELSE IF Contains(s, <<"@">>) /\ parseProxyAt(s) # <<>> THEN parseProxyAt(s)
    ELSE parseProxyFields(s)

\* The loop of readProxies (part_000:120-128) over the lines of the file
RECURSIVE ScanProxies(_)
ScanProxies(lines) ==
    IF lines = <<>> THEN <<>>
    ELSE parseProxyLine(TrimSpace(Head(lines))) \o ScanProxies(Tail(lines))

\* readEmails: an error when the file cannot be opened, else its addresses
readEmails(filename) ==
    [err |-> files[filename] = NoFile,
     list |-> IF files[filename] = NoFile THEN <<>> ELSE files[filename]]

\* readEventURLs: an error when the file cannot be opened, else its URLs
readEventURLs(filename) ==
    [err |-> files[filename] = NoFile,
     list |-> IF files[filename] = NoFile THEN <<>> ELSE files[filename]]

\* readProxies: a missing file is no error: the list is empty; else the
\* lines of the file are parsed
readProxies(filename) ==
    [err |-> FALSE,
     list |-> IF files[filename] = NoFile THEN <<>>
              ELSE ScanProxies(files[filename])]

-----------------------------------------------------------------------------
(* telegram_bot.go: TelegramBot *)

DefaultMaxWorkers == 20
MinWorkers == 1
MaxWorkersLimit == 200
ResultsShown == 10

\* NewTelegramBot (telegram_bot.go:93-101)
NewCampaign == [running |-> FALSE, startTime |-> 0, results |-> <<>>]

NoMessage == [chat |-> 0, kind |-> "none", n |-> 0]

Message(chatID, kind, n) == [chat |-> chatID, kind |-> kind, n |-> n]

NoLaunch ==
    [chat |-> 0, firstName |-> <<>>, lastName |-> <<>>, organization |-> <<>>,
     emailsFile |-> <<>>, eventsFile |-> <<>>, proxiesFile |-> <<>>,
     maxWorkers |-> 0]

\* The command loop between two messages (telegram_bot.go:125-141)
IdleLoop == [pc |-> "poll", launch |-> NoLaunch]

\* telegram_bot.go:109-115
NewUserConfig(chatID) ==
    [FirstName |-> <<>>, LastName |-> <<>>, Organization |-> <<>>,
     EmailsFile |-> EmailsPath(chatID), EventsFile |-> EventsPath(chatID),
     ProxiesFile |-> ProxiesPath,
     MaxWorkers |-> DefaultMaxWorkers, State |-> "idle"]

\* Mutant: every message starts a new session
getUserConfigReplaces(chatID) ==
    [u \in DOMAIN userConfigs \cup {chatID} |->
        IF u = chatID THEN NewUserConfig(chatID) ELSE userConfigs[u]]

\* getUserConfig (telegram_bot.go:104-118): the map after the call
getUserConfig(chatID) ==
    IF chatID \in DOMAIN userConfigs THEN userConfigs
    ELSE userConfigs @@ (chatID :> NewUserConfig(chatID))

\* The runs whose Orchestrator has been started and whose completion handler
\* (telegram_bot.go:555-558) has not run yet
InFlight == {k \in DOMAIN runs : runs[k].pc \in {"enqueue", "collect", "returned"}}

FreeSlots == {k \in DOMAIN runs : runs[k].pc = "free"}

\* A handler that only answers
Reply(chatID, cfgs, kind, n) ==
    /\ sent' = Message(chatID, kind, n)
    /\ userConfigs' = cfgs
    /\ UNCHANGED <<runs, campaign, files, loop, clock, stopSeen>>

\* handleSetup (telegram_bot.go:353-362)
handleSetup(chatID, cfgs) ==
    /\ userConfigs' = [cfgs EXCEPT ![chatID].State = "awaiting_firstname"]
    /\ sent' = Message(chatID, "setup_step1", 0)
    /\ UNCHANGED <<runs, campaign, files, loop, clock, stopSeen>>

\* Mutant: an empty text is asked for again
handleStateInputRejectsEmpty(chatID, text, cfgs) ==
    IF text = <<>>
    THEN Reply(chatID, cfgs, "setup_retry", 0)
    ELSE /\ userConfigs' =
              CASE cfgs[chatID].State = "awaiting_firstname" ->
                     [cfgs EXCEPT ![chatID].FirstName = text,
                                  ![chatID].State = "awaiting_lastname"]
                [] cfgs[chatID].State = "awaiting_lastname" ->
                     [cfgs EXCEPT ![chatID].LastName = text,
                                  ![chatID].State = "awaiting_org"]
                [] OTHER ->
                     [cfgs EXCEPT ![chatID].Organization = text,
                                  ![chatID].State = "idle"]
         /\ sent' = Message(chatID, "setup_step", 0)
         /\ UNCHANGED <<runs, campaign, files, loop, clock, stopSeen>>

\* handleStateInput (telegram_bot.go:365-399)
handleStateInput(chatID, text, cfgs) ==
    /\ userConfigs' =
         CASE cfgs[chatID].State = "awaiting_firstname" ->
                [cfgs EXCEPT ![chatID].FirstName = text,
                             ![chatID].State = "awaiting_lastname"]
           [] cfgs[chatID].State = "awaiting_lastname" ->
                [cfgs EXCEPT ![chatID].LastName = text,
                             ![chatID].State = "awaiting_org"]
           [] cfgs[chatID].State = "awaiting_org" ->
                [cfgs EXCEPT ![chatID].Organization = text,
                             ![chatID].State = "idle"]
           [] OTHER -> cfgs
    /\ sent' =
         CASE cfgs[chatID].State = "awaiting_firstname" ->
                Message(chatID, "setup_step2", 0)
           [] cfgs[chatID].State = "awaiting_lastname" ->
                Message(chatID, "setup_step3", 0)
           [] cfgs[chatID].State = "awaiting_org" ->
                Message(chatID, "setup_complete", 0)
           [] OTHER -> sent
    /\ UNCHANGED <<runs, campaign, files, loop, clock, stopSeen>>

\* Mutant: a limit of 0 is taken
handleWorkersAllowsZero(chatID, text, cfgs) ==
    IF Len(text) = 1
    THEN Reply(chatID, cfgs, "workers_current", cfgs[chatID].MaxWorkers)
    ELSE IF Len(text) # 2
    THEN Reply(chatID, cfgs, "workers_usage", 0)
    ELSE LET workers == Atoi(text[2]) IN
         IF workers.err \/ workers.value < 0
                        \/ workers.value > MaxWorkersLimit
         THEN Reply(chatID, cfgs, "workers_invalid", 0)
         ELSE /\ userConfigs' = [cfgs EXCEPT ![chatID].MaxWorkers = workers.value]
              /\ sent' = Message(chatID, "workers_updated", workers.value)
              /\ UNCHANGED <<runs, campaign, files, loop, clock, stopSeen>>

\* Mutant: the new limit is given to the chat's campaigns in flight too
handleWorkersResizesRuns(chatID, text, cfgs) ==
    IF Len(text) = 1
    THEN Reply(chatID, cfgs, "workers_current", cfgs[chatID].MaxWorkers)
    ELSE IF Len(text) # 2
    THEN Reply(chatID, cfgs, "workers_usage", 0)
    ELSE LET workers == Atoi(text[2]) IN
         IF workers.err \/ workers.value < MinWorkers
                        \/ workers.value > MaxWorkersLimit
         THEN Reply(chatID, cfgs, "workers_invalid", 0)
         ELSE /\ userConfigs' = [cfgs EXCEPT ![chatID].MaxWorkers = workers.value]
              /\ sent' = Message(chatID, "workers_updated", workers.value)
              /\ runs' = [k \in DOMAIN runs |->
                            IF runs[k].chat = chatID
                            THEN [runs[k] EXCEPT !.maxWorkers = workers.value]
                            ELSE runs[k]]
              /\ UNCHANGED <<campaign, files, loop, clock, stopSeen>>

\* handleWorkers (telegram_bot.go:223-286); text is strings.Fields(text)
handleWorkers(chatID, text, cfgs) ==
    IF Len(text) = 1
    THEN Reply(chatID, cfgs, "workers_current", cfgs[chatID].MaxWorkers)
    ELSE IF Len(text) # 2
    THEN Reply(chatID, cfgs, "workers_usage", 0)
    ELSE LET workers == Atoi(text[2]) IN
         IF workers.err \/ workers.value < MinWorkers
                        \/ workers.value > MaxWorkersLimit
         THEN Reply(chatID, cfgs, "workers_invalid", 0)
         ELSE /\ userConfigs' = [cfgs EXCEPT ![chatID].MaxWorkers = workers.value]
              /\ sent' = Message(chatID, "workers_updated", workers.value)
              /\ UNCHANGED <<runs, campaign, files, loop, clock, stopSeen>>

\* Mutant: the words of the targets are looked for first
UploadTargetEventsFirst(fileName, cfg) ==
    IF \/ Contains(ToLower(fileName), <<"e", "v", "e", "n", "t">>)
       \/ Contains(ToLower(fileName), <<"l", "i", "s", "t">>)
    THEN cfg.EventsFile
    ELSE IF Contains(ToLower(fileName), <<"e", "m", "a", "i", "l">>)
    THEN cfg.EmailsFile
    ELSE IF \/ Contains(ToLower(fileName), <<"p", "r", "o", "x", "y">>)
            \/ Contains(ToLower(fileName), <<"p", "r", "o", "x", "i", "e", "s">>)
    THEN cfg.ProxiesFile
    ELSE <<>>

\* handleFileUpload (telegram_bot.go:290-306): the file the upload is
\* stored at, <<>> when the name tells no role
UploadTarget(fileName, cfg) ==
    IF Contains(ToLower(fileName), <<"e", "m", "a", "i", "l">>)
    THEN cfg.EmailsFile
    ELSE IF \/ Contains(ToLower(fileName), <<"e", "v", "e", "n", "t">>)
            \/ Contains(ToLower(fileName), <<"l", "i", "s", "t">>)
    THEN cfg.EventsFile
    ELSE IF \/ Contains(ToLower(fileName), <<"p", "r", "o", "x", "y">>)
            \/ Contains(ToLower(fileName), <<"p", "r", "o", "x", "i", "e", "s">>)
    THEN cfg.ProxiesFile
    ELSE <<>>

\* handleFileUpload and downloadFile (telegram_bot.go:289-350)
handleFileUpload(chatID, doc, cfgs) ==
    LET targetFile == UploadTarget(doc.FileName, cfgs[chatID]) IN
    IF targetFile = <<>>
    THEN Reply(chatID, cfgs, "unknown_file", 0)
    ELSE IF ~doc.reachable
    THEN Reply(chatID, cfgs, "download_failed", 0)
    ELSE /\ files' = [files EXCEPT ![targetFile] = doc.lines]
         /\ sent' = Message(chatID, "uploaded", 0)
         /\ userConfigs' = cfgs
         /\ UNCHANGED <<runs, campaign, loop, clock, stopSeen>>

\* sendStatus (telegram_bot.go:445-474)
sendStatus(chatID, cfgs) ==
    IF ~campaign.running
    THEN Reply(chatID, cfgs, "no_campaign_running", 0)
    ELSE Reply(chatID, cfgs, "campaign_running", Len(campaign.results))

\* What handleRegister does when it accepts the launch
AcceptLaunch(chatID, cfgs, newCampaign) ==
    /\ campaign' = newCampaign
    /\ clock' = clock + 1
    /\ loop' = [pc |-> "launch",
                launch |-> [chat |-> chatID,
                            firstName |-> cfgs[chatID].FirstName,
                            lastName |-> cfgs[chatID].LastName,
                            organization |-> cfgs[chatID].Organization,
                            emailsFile |-> cfgs[chatID].EmailsFile,
                            eventsFile |-> cfgs[chatID].EventsFile,
                            proxiesFile |-> cfgs[chatID].ProxiesFile,
                            maxWorkers |-> cfgs[chatID].MaxWorkers]]
    /\ userConfigs' = cfgs
    /\ UNCHANGED <<runs, files, sent, stopSeen>>

SetupMissing(userConfig) ==
    \/ userConfig.FirstName = <<>>
    \/ userConfig.LastName = <<>>
    \/ userConfig.Organization = <<>>

NewlyRunning == [running |-> TRUE, startTime |-> clock + 1, results |-> <<>>]

\* Mutant: the running flag is not looked at
handleRegisterNoGuard(chatID, cfgs) ==
    IF SetupMissing(cfgs[chatID])
    THEN Reply(chatID, cfgs, "run_setup_first", 0)
    ELSE AcceptLaunch(chatID, cfgs, NewlyRunning)

\* Mutant: the rejection clears running, as the file errors do
handleRegisterClearsFlag(chatID, cfgs) ==
    IF SetupMissing(cfgs[chatID])
    THEN Reply(chatID, cfgs, "run_setup_first", 0)
    ELSE IF campaign.running
    THEN /\ campaign' = [campaign EXCEPT !.running = FALSE]
         /\ sent' = Message(chatID, "already_running", 0)
         /\ userConfigs' = cfgs
         /\ UNCHANGED <<runs, files, loop, clock, stopSeen>>
    ELSE AcceptLaunch(chatID, cfgs, NewlyRunning)

\* Mutant: the running flag is looked at before the setup
handleRegisterRunningFirst(chatID, cfgs) ==
    IF campaign.running
    THEN Reply(chatID, cfgs, "already_running", 0)
    ELSE IF SetupMissing(cfgs[chatID])
    THEN Reply(chatID, cfgs, "run_setup_first", 0)
    ELSE AcceptLaunch(chatID, cfgs, NewlyRunning)

\* Mutant: the results of the campaign before are kept
handleRegisterKeepsResults(chatID, cfgs) ==
    IF SetupMissing(cfgs[chatID])
    THEN Reply(chatID, cfgs, "run_setup_first", 0)
    ELSE IF campaign.running
    THEN Reply(chatID, cfgs, "already_running", 0)
    ELSE AcceptLaunch(chatID, cfgs, [NewlyRunning EXCEPT !.results = campaign.results])

\* Mutant: a launch waits for the runs in flight
handleRegisterWaitsForRuns(chatID, cfgs) ==
    IF SetupMissing(cfgs[chatID])
    THEN Reply(chatID, cfgs, "run_setup_first", 0)
    ELSE IF campaign.running \/ InFlight # {}
    THEN Reply(chatID, cfgs, "already_running", 0)
    ELSE AcceptLaunch(chatID, cfgs, NewlyRunning)

\* handleRegister up to the end of its critical section
\* (telegram_bot.go:477-503): the launch is refused, or the campaign state is
\* set and the handler goes on to read the files
handleRegister(chatID, cfgs) ==
    IF SetupMissing(cfgs[chatID])
    THEN Reply(chatID, cfgs, "run_setup_first", 0)
    ELSE IF campaign.running
    THEN Reply(chatID, cfgs, "already_running", 0)
    ELSE AcceptLaunch(chatID, cfgs, NewlyRunning)

\* runCampaign up to the call of Run (telegram_bot.go:542-553), started
\* with `go` by handleRegister
StartCampaign(l, emails, eventURLs, proxies) ==
    [NewRun(NewRegistrationOrchestrator(l.firstName, l.lastName, l.organization, TRUE, l.maxWorkers, <<"chat", l.chat>>),
            eventURLs, emails, proxies)
        EXCEPT !.chat = l.chat]

\* Mutant: a file that cannot be read leaves running as it is
RegisterLoadKeepsRunning ==
    LET l == loop.launch
        emails == readEmails(l.emailsFile)
        eventURLs == readEventURLs(l.eventsFile)
        proxies == readProxies(l.proxiesFile)
    IN
    /\ loop.pc = "launch"
    /\ loop' = IdleLoop
    /\ IF emails.err
       THEN /\ sent' = Message(l.chat, "emails_failed", 0)
            /\ UNCHANGED <<runs, campaign>>
       ELSE IF eventURLs.err
       THEN /\ sent' = Message(l.chat, "events_failed", 0)
            /\ UNCHANGED <<runs, campaign>>
       ELSE /\ FreeSlots # {}
            /\ sent' = Message(l.chat, "campaign_started",
                               Len(emails.list) * Len(eventURLs.list))
            /\ LET k == CHOOSE k \in FreeSlots : \A j \in FreeSlots : k <= j IN
               runs' = [runs EXCEPT ![k] =
                          StartCampaign(l, emails.list, eventURLs.list,
                                        proxies.list)]
            /\ UNCHANGED campaign
    /\ UNCHANGED <<userConfigs, files, clock, stopSeen>>

\* handleRegister after its critical section (telegram_bot.go:505-539): the
\* files are read; a file that cannot be read resets running (without the
\* lock) and ends the launch; else the campaign goroutine is started.  The
\* write of running at lines 507 and 514 can race only with the completion
\* handler of an earlier run, which writes the same value.
RegisterLoad ==
    LET l == loop.launch
        emails == readEmails(l.emailsFile)
        eventURLs == readEventURLs(l.eventsFile)
        proxies == readProxies(l.proxiesFile)
    IN
    /\ loop.pc = "launch"
    /\ loop' = IdleLoop
    /\ IF emails.err
       THEN /\ campaign' = [campaign EXCEPT !.running = FALSE]
            /\ sent' = Message(l.chat, "emails_failed", 0)
            /\ UNCHANGED runs
       ELSE IF eventURLs.err
       THEN /\ campaign' = [campaign EXCEPT !.running = FALSE]
            /\ sent' = Message(l.chat, "events_failed", 0)
            /\ UNCHANGED runs
       ELSE /\ FreeSlots # {}
            /\ sent' = Message(l.chat, "campaign_started",
                               Len(emails.list) * Len(eventURLs.list))
            /\ LET k == CHOOSE k \in FreeSlots : \A j \in FreeSlots : k <= j IN
               runs' = [runs EXCEPT ![k] =
                          StartCampaign(l, emails.list, eventURLs.list,
                                        proxies.list)]
            /\ UNCHANGED campaign
    /\ UNCHANGED <<userConfigs, files, clock, stopSeen>>

\* Mutant: the completion handler leaves running as it is
CompleteKeepsRunning(k) ==
    /\ runs[k].pc = "returned"
    /\ runs[k].chat # 0
    /\ campaign' = [campaign EXCEPT !.results = runs[k].allResults]
    /\ runs' = [runs EXCEPT ![k].pc = "completed"]
    /\ UNCHANGED <<userConfigs, files, loop, clock, sent, stopSeen>>

\* runCampaign after Run has returned (telegram_bot.go:553-592): the
\* completion handler stores the results and clears running, then sends the
\* summary
Complete(k) ==
    /\ runs[k].pc = "returned"
    /\ runs[k].chat # 0
    /\ campaign' = [campaign EXCEPT !.results = runs[k].allResults,
                                    !.running = FALSE]
    /\ runs' = [runs EXCEPT ![k].pc = "completed"]
    /\ UNCHANGED <<userConfigs, files, loop, clock, sent, stopSeen>>

\* Mutant: the stop empties the job channels of the runs in flight
handleStopDropsJobs(chatID, cfgs) ==
    IF ~campaign.running
    THEN Reply(chatID, cfgs, "no_campaign", 0)
    ELSE /\ campaign' = [campaign EXCEPT !.running = FALSE]
         /\ sent' = Message(chatID, "stop_requested", 0)
         /\ stopSeen' = stopSeen \cup InFlight
         /\ userConfigs' = cfgs
         /\ runs' = [k \in DOMAIN runs |-> [runs[k] EXCEPT !.jobs = <<>>]]
         /\ UNCHANGED <<files, loop, clock>>

\* Mutant: a chat stops its own campaigns only
handleStopOwnCampaign(chatID, cfgs) ==
    IF ~campaign.running \/ \A k \in InFlight : runs[k].chat # chatID
    THEN Reply(chatID, cfgs, "no_campaign", 0)
    ELSE /\ campaign' = [campaign EXCEPT !.running = FALSE]
         /\ sent' = Message(chatID, "stop_requested", 0)
         /\ stopSeen' = stopSeen \cup InFlight
         /\ userConfigs' = cfgs
         /\ UNCHANGED <<runs, files, loop, clock>>

\* handleStop (telegram_bot.go:596-607)
handleStop(chatID, cfgs) ==
    IF ~campaign.running
    THEN Reply(chatID, cfgs, "no_campaign", 0)
    ELSE /\ campaign' = [campaign EXCEPT !.running = FALSE]
         /\ sent' = Message(chatID, "stop_requested", 0)
         /\ stopSeen' = stopSeen \cup InFlight
         /\ userConfigs' = cfgs
         /\ UNCHANGED <<runs, files, loop, clock>>

\* Mutant: the results are dropped once they have been shown
sendResultsClears(chatID, cfgs) ==
    IF Len(campaign.results) = 0
    THEN Reply(chatID, cfgs, "no_results", 0)
    ELSE /\ sent' = Message(chatID, "results", Min(Len(campaign.results), ResultsShown))
         /\ campaign' = [campaign EXCEPT !.results = <<>>]
         /\ userConfigs' = cfgs
         /\ UNCHANGED <<runs, files, loop, clock, stopSeen>>

\* sendResults (telegram_bot.go:610-639)
sendResults(chatID, cfgs) ==
    IF Len(campaign.results) = 0
    THEN Reply(chatID, cfgs, "no_results", 0)
    ELSE Reply(chatID, cfgs, "results", Min(Len(campaign.results), ResultsShown))

\* sendStats (telegram_bot.go:642-688)
sendStats(chatID, cfgs) ==
    Reply(chatID, cfgs, "stats", Len(campaign.results))

\* handleConfig (telegram_bot.go:691-714)
handleConfig(chatID, cfgs) ==
    Reply(chatID, cfgs, "config", cfgs[chatID].MaxWorkers)

\* Mutant: a text that is no command is passed over in silence
DispatchDropsUnknown(chatID, text, cfgs) ==
    CASE text = <<CmdStart>> -> Reply(chatID, cfgs, "welcome", 0)
      [] text = <<CmdHelp>> -> Reply(chatID, cfgs, "help", 0)
      [] text = <<CmdSetup>> -> handleSetup(chatID, cfgs)
      [] text # <<>> /\ HasPrefix(text[1], CmdWorkers) ->
             handleWorkers(chatID, text, cfgs)
      [] text = <<CmdStatus>> -> sendStatus(chatID, cfgs)
      [] text = <<CmdRegister>> -> handleRegister(chatID, cfgs)
      [] text = <<CmdStop>> -> handleStop(chatID, cfgs)
      [] text = <<CmdResults>> -> sendResults(chatID, cfgs)
      [] text = <<CmdStats>> -> sendStats(chatID, cfgs)
      [] text = <<CmdConfig>> -> handleConfig(chatID, cfgs)
      [] OTHER -> /\ userConfigs' = cfgs
                  /\ UNCHANGED <<runs, campaign, files, loop, clock, sent, stopSeen>>

\* The command table of handleMessage (telegram_bot.go:195-219)
Dispatch(chatID, text, cfgs) ==
    CASE text = <<CmdStart>> -> Reply(chatID, cfgs, "welcome", 0)
      [] text = <<CmdHelp>> -> Reply(chatID, cfgs, "help", 0)
      [] text = <<CmdSetup>> -> handleSetup(chatID, cfgs)
      [] text # <<>> /\ HasPrefix(text[1], CmdWorkers) ->
             handleWorkers(chatID, text, cfgs)
      [] text = <<CmdStatus>> -> sendStatus(chatID, cfgs)
      [] text = <<CmdRegister>> -> handleRegister(chatID, cfgs)
      [] text = <<CmdStop>> -> handleStop(chatID, cfgs)
      [] text = <<CmdResults>> -> sendResults(chatID, cfgs)
      [] text = <<CmdStats>> -> sendStats(chatID, cfgs)
      [] text = <<CmdConfig>> -> handleConfig(chatID, cfgs)
      [] OTHER -> Reply(chatID, cfgs, "unknown_command", 0)

\* Mutant: /register and /stop are looked for before the wizard state
handleMessageCommandsFirst(chatID, msg) ==
    LET cfgs == getUserConfig(chatID)
        text == msg.Text
    IN
    /\ loop.pc = "poll"
    /\ IF msg.Document # NoDoc
       THEN handleFileUpload(chatID, msg.Document, cfgs)
       ELSE IF cfgs[chatID].State # "idle"
               /\ text \notin {<<CmdRegister>>, <<CmdStop>>}
       THEN handleStateInput(chatID, text, cfgs)
       ELSE Dispatch(chatID, text, cfgs)

\* handleMessage (telegram_bot.go:172-220), called by the command loop for
\* one update; a /register goes on in RegisterLoad
handleMessage(chatID, msg) ==
    LET cfgs == getUserConfig(chatID)
        text == msg.Text
    IN
    /\ loop.pc = "poll"
    /\ IF msg.Document # NoDoc
       THEN handleFileUpload(chatID, msg.Document, cfgs)
       ELSE IF cfgs[chatID].State # "idle"
       THEN handleStateInput(chatID, text, cfgs)
       ELSE Dispatch(chatID, text, cfgs)

\* The state NewTelegramBot leaves, with no file in the working directory
BotIdle ==
    /\ campaign = NewCampaign
    /\ userConfigs = <<>>
    /\ files = [path \in {ProxiesPath} |-> NoFile]
    /\ loop = IdleLoop
    /\ clock = 0
    /\ sent = NoMessage
    /\ stopSeen = {}

-----------------------------------------------------------------------------
(* SpecRun: one call of Run, as main() makes it in CLI mode (main.go:161-172) *)
(* or runCampaign for the bot (telegram_bot.go:553)                         *)

CliChatIDs == {"", "42"}

InitRun ==
    /\ BotIdle
    /\ \E t \in 0..MaxT, i \in 0..MaxI, c \in 1..MaxC,
          chatID \in CliChatIDs :
          /\ t * i <= MaxJobs
          /\ runs = [k \in Slots |->
                       IF k = 1
                       THEN NewRun(NewRegistrationOrchestrator(
                                       Ann, Lee, Org, TRUE, c, chatID),
                                   Prefix(TargetList, t), Prefix(EmailList, i),
                                   <<>>)
                       ELSE FreeRun]

NextRun == RunStep(1)

SpecRun == InitRun /\ [][NextRun]_vars

\* Run under fair scheduling: as long as a goroutine of Run can take a step,
\* one of them does (every attempt, sleep and alert call terminates).
SpecRunFair == SpecRun /\ WF_vars(NextRun)

\* Run with a proxy list (main.go:158-172) and an alert chat
InitProxy ==
    /\ BotIdle
    /\ \E t \in 0..MaxT, i \in 0..MaxI, c \in 1..MaxC, p \in 0..MaxP :
          /\ t * i <= MaxJobs
          /\ runs = [k \in Slots |->
                       IF k = 1
                       THEN NewRun(NewRegistrationOrchestrator(
                                       Ann, Lee, Org, TRUE, c, "42"),
                                   Prefix(TargetList, t), Prefix(EmailList, i),
                                   Prefix(ProxyList, p))
                       ELSE FreeRun]

SpecProxy == InitProxy /\ [][NextRun]_vars

-----------------------------------------------------------------------------
(* Spec: the bot (RunBotMode).  The initial states are states the bot is in  *)
(* after its users have sent /workers 1 and gone through /setup: user 1 has  *)
(* set all three fields and uploaded one email and one event URL; the other  *)
(* users have uploaded nothing, and either all of them have set all three    *)
(* fields or all of them have left the same field empty.                     *)

MaxUsers == 2        \* chats that send messages: 1..MaxUsers
MaxLaunch == 2       \* launches that pass both checks in one behaviour

Users == 1..MaxUsers

Session(chatID, firstName, lastName, organization, maxWorkers) ==
    [NewUserConfig(chatID) EXCEPT !.FirstName = firstName,
                                  !.LastName = lastName,
                                  !.Organization = organization,
                                  !.MaxWorkers = maxWorkers]

BotPaths ==
    {EmailsPath(u) : u \in Users} \cup {EventsPath(u) : u \in Users}
        \cup {ProxiesPath}

Init ==
    /\ campaign = NewCampaign
    /\ loop = IdleLoop
    /\ clock = 0
    /\ sent = NoMessage
    /\ stopSeen = {}
    /\ runs = [k \in Slots |-> FreeRun]
    /\ \E other \in {<<Ann, Lee, Org>>, <<<<>>, Lee, Org>>, <<Ann, <<>>, Org>>,
                     <<Ann, Lee, <<>>>>} :
          userConfigs = [u \in Users |->
                           IF u = 1 THEN Session(1, Ann, Lee, Org, 1)
                           ELSE Session(u, other[1], other[2], other[3], 1)]
    /\ files = [path \in BotPaths |->
                  IF path = EmailsPath(1) THEN Prefix(EmailList, 1)
                  ELSE IF path = EventsPath(1) THEN Prefix(TargetList, 1)
                  ELSE NoFile]

\* Whether a /register of this chat would pass both checks of handleRegister
WouldLaunch(chatID) ==
    /\ chatID \in DOMAIN userConfigs
    /\ userConfigs[chatID].State = "idle"
    /\ userConfigs[chatID].FirstName # <<>>
    /\ userConfigs[chatID].LastName # <<>>
    /\ userConfigs[chatID].Organization # <<>>
    /\ ~campaign.running

\* The command loop takes the next update.  A run needs a free slot and the
\* clock is capped, so a /register that would pass both checks is taken
\* only while a slot is free and the cap allows one more launch.
Receive(chatID, msg) ==
    /\ (msg.Text = <<CmdRegister>> /\ WouldLaunch(chatID)) =>
           (FreeSlots # {} /\ clock < MaxLaunch)
    /\ handleMessage(chatID, msg)

Next ==
    \/ \E chatID \in Users, text \in {<<CmdRegister>>, <<CmdStop>>, <<CmdStatus>>} :
          Receive(chatID, TextMessage(text))
    \/ RegisterLoad
    \/ \E k \in Slots : RunStep(k)
    \/ \E k \in Slots : Complete(k)

Spec == Init /\ [][Next]_vars

(* SpecFair: the bot with chats that launch and stop campaigns, under      *)
(* fair scheduling.  The Go scheduler runs every goroutine that can take a  *)
(* step, and the handler of a /register that passed both checks goes on to  *)
(* read its files: the steps of a run, its completion handler and           *)
(* RegisterLoad are weakly fair.  The command loop may receive no further   *)
(* message.                                                                 *)

InitFair == Init /\ \A u \in Users : ~SetupMissing(userConfigs[u])

NextFair ==
    \/ \E chatID \in Users, text \in {<<CmdRegister>>, <<CmdStop>>} :
          Receive(chatID, TextMessage(text))
    \/ RegisterLoad
    \/ \E k \in Slots : RunStep(k)
    \/ \E k \in Slots : Complete(k)

SpecFair ==
    /\ InitFair
    /\ [][NextFair]_vars
    /\ WF_vars(RegisterLoad)
    /\ \A k \in Slots : WF_vars(RunStep(k)) /\ WF_vars(Complete(k))

-----------------------------------------------------------------------------
(* SpecWizard: the command loop with a chat that goes through /setup.  The *)
(* chats have sent /workers 1 and nothing else; chat 1 has uploaded one     *)
(* email and one event URL and is the one that writes: the commands /setup, *)
(* /register and /stop, the empty text, or a file named emails.txt (a       *)
(* command sent as a name is a name like any other).  The behaviours are    *)
(* those with at most one launch in which the goroutines of the launched    *)
(* campaign take no step while the chat writes: the campaign stays in       *)
(* flight.                                                                  *)

\* A message with a file attachment (telegram_bot.go:55-69)
DocMessage(doc) == [Document |-> doc, Text |-> <<>>]

EmailsDoc ==
    [FileName |-> <<"e", "m", "a", "i", "l", "s", ".", "t", "x", "t">>,
     lines |-> Prefix(EmailList, 1), reachable |-> TRUE]

WizardChats == {1}

WizardTexts == {<<CmdSetup>>, <<CmdRegister>>, <<CmdStop>>, <<>>}

InitWizard ==
    /\ campaign = NewCampaign
    /\ loop = IdleLoop
    /\ clock = 0
    /\ sent = NoMessage
    /\ stopSeen = {}
    /\ runs = [k \in Slots |-> FreeRun]
    /\ userConfigs = [u \in Users |-> Session(u, <<>>, <<>>, <<>>, 1)]
    /\ files = [path \in BotPaths |->
                  IF path = EmailsPath(1) THEN Prefix(EmailList, 1)
                  ELSE IF path = EventsPath(1) THEN Prefix(TargetList, 1)
                  ELSE NoFile]

ReceiveText(chatID, text) ==
    /\ (text = <<CmdRegister>> /\ WouldLaunch(chatID)) => clock = 0
    /\ Receive(chatID, TextMessage(text))

NextWizard ==
    \/ \E chatID \in WizardChats, text \in WizardTexts : ReceiveText(chatID, text)
    \/ \E chatID \in WizardChats : Receive(chatID, DocMessage(EmailsDoc))
    \/ RegisterLoad

SpecWizard == InitWizard /\ [][NextWizard]_vars

-----------------------------------------------------------------------------
(* SpecSession: the command loop from the state NewTelegramBot leaves, with *)
(* two chats that write in any order.  No session exists before a chat's    *)
(* first message.  A chat writes /setup, /config, /workers with the         *)
(* arguments below, and a name or the empty text; while its wizard is not   *)
(* idle it writes a name or the empty text only (any other text would be    *)
(* taken as a name all the same).                                           *)

SessionChats == {1, 2}

NameTexts == {Ann, <<>>}

SessionTexts ==
    {<<CmdSetup>>, <<CmdConfig>>, <<CmdWorkers>>, <<CmdWorkers, <<"1">>, <<"2">>>>}
        \cup {<<CmdWorkers, arg>> :
                 arg \in {<<"1">>, <<"2", "0", "0">>, <<"0">>, <<"2", "0", "1">>,
                          <<"-", "1">>, <<"x">>}}
        \cup NameTexts

InitSession ==
    /\ campaign = NewCampaign
    /\ userConfigs = <<>>
    /\ files = [path \in BotPaths |-> NoFile]
    /\ loop = IdleLoop
    /\ clock = 0
    /\ sent = NoMessage
    /\ stopSeen = {}
    /\ runs = [k \in Slots |-> FreeRun]

NextSession ==
    \E chatID \in SessionChats, text \in SessionTexts :
        /\ (chatID \in DOMAIN userConfigs /\ userConfigs[chatID].State # "idle")
              => text \in NameTexts
        /\ Receive(chatID, TextMessage(text))

SpecSession == InitSession /\ [][NextSession]_vars

-----------------------------------------------------------------------------
(* SpecUpload: the command loop from the state NewTelegramBot leaves, with  *)
(* two chats that send files in any order.  A file has one of the names     *)
(* below; the download of a file can fail before anything is written.       *)

\* A file attachment (telegram_bot.go:64-69) with the lines a download gives
TelegramDocument(fileName, lines, reachable) ==
    [FileName |-> fileName, lines |-> lines, reachable |-> reachable]

\* The lines of a file: two under the longer names, one under the others
UploadLines(name) ==
    IF Len(name) > 6 THEN Prefix(EmailList, 2) ELSE Prefix(EmailList, 1)

UploadDocs ==
    LET UploadNames ==
            {<<"e", "m", "a", "i", "l", "s">>,
             <<"E", "V", "E", "N", "T", "S">>,
             <<"l", "i", "s", "t">>,
             <<"p", "r", "o", "x", "y">>,
             <<"P", "r", "o", "x", "i", "e", "s">>,
             <<"e", "m", "a", "i", "l", "l", "i", "s", "t">>,
             <<"l", "i", "s", "t", "p", "r", "o", "x", "y">>,
             <<"p", "r", "o", "x", "y", "E", "m", "a", "i", "l">>,
             <<"d", "a", "t", "a">>}
    IN  {TelegramDocument(name, UploadLines(name), TRUE) : name \in UploadNames}
          \cup {TelegramDocument(name, UploadLines(name), FALSE) :
                  name \in {<<"l", "i", "s", "t">>, <<"d", "a", "t", "a">>}}

NextUpload ==
    \E chatID \in SessionChats, doc \in UploadDocs : Receive(chatID, DocMessage(doc))

SpecUpload == InitSession /\ [][NextUpload]_vars

-----------------------------------------------------------------------------
(* SpecParse: main() in CLI mode reads the proxy file and starts Run       *)
(* (main.go:148-172).  The file is missing or holds one line: fields put    *)
(* together with colons and "@", a URL, a comment, a markdown link, or a    *)
(* line with blanks around it.                                              *)

\* What stands between the colons of a line: a host, two integers, nothing,
\* and digits followed by a letter
FieldPool == {<<"h">>, <<"8", "0">>, <<"-", "8">>, <<>>, <<"8", "x">>}

Colon(a, b) == a \o <<":">> \o b

ProxyLines ==
    LET Lines2 == {Colon(a, b) : a, b \in FieldPool}
        Lines4 ==
            {Colon(Colon(a, b), Colon(c, d)) : a, b \in FieldPool, c, d \in FieldPool}
        LinesAt ==
            {left \o <<"@">> \o right :
                left \in {<<"u">>, <<"u", ":", "p">>, <<"u", ":", "p", ":", "x">>,
                          <<"u", ":", "p", "@", "a">>},
                right \in Lines2 \cup {<<"h">>, <<"h", ":", "8", "0", ":", "8">>}}
        LinesURL ==
            {scheme \o <<":", "/", "/">> \o authority \o tail :
                scheme \in {<<>>, <<"P">>, <<"s", "5">>, <<"5">>},
                authority \in {<<"h", ":", "8", "0">>, <<"h">>, <<":", "8", "0">>,
                               <<"h", ":", "8", "x">>, <<"h", ":", "-", "8">>,
                               <<"u", ":", "p", "@", "h", ":", "8", "0">>,
                               <<"u", "@", "h", ":", "8", "0">>,
                               <<"[", "a", ":", "a", "]", ":", "8">>},
                tail \in {<<>>, <<"/", "x">>, <<"?", "x">>, <<"#", "x">>}}
              \cup {<<"/", "/", "h", ":", "8", "0", "/", "x", ":", "/", "/">>,
                    <<"h", ":", "8", "0", "/", "x", ":", "/", "/">>,
                    <<"s", ":", "h", ":", "8", "0", ":", "/", "/">>}
        LinesOther ==
            {<<>>, <<" ">>, <<"#", "h", ":", "8", "0">>, <<"#", ":", "8", ":", "u", ":", "p">>,
             <<" ", "h", ":", "8", "0", " ">>, <<"h">>, <<"h", ":", "8", "0", ":", "u">>,
             <<"[", "h", ":", "8", "0", "]", "(", "x", ")">>,
             <<"[", "x", "]", "(", "h", ":", "8", "0", ")">>,
             <<"]", "(", "[", "h", ":", "8", "0">>}
    IN  Lines2 \cup Lines4 \cup LinesAt \cup LinesURL \cup LinesOther

InitParse ==
    /\ campaign = NewCampaign
    /\ userConfigs = <<>>
    /\ loop = IdleLoop
    /\ clock = 0
    /\ sent = NoMessage
    /\ stopSeen = {}
    /\ runs = [k \in Slots |-> FreeRun]
    /\ \/ files = [path \in {ProxiesPath} |-> NoFile]
       \/ \E line \in ProxyLines : files = [path \in {ProxiesPath} |-> <<line>>]

\* main.go:148-172: the proxies are read and Run is called with one target
\* and one identity
LoadProxies ==
    /\ runs[1].pc = "free"
    /\ runs' = [runs EXCEPT ![1] =
                  NewRun(NewRegistrationOrchestrator(Ann, Lee, Org, TRUE, 1, ""),
                         Prefix(TargetList, 1), Prefix(EmailList, 1),
                         readProxies(ProxiesPath).list)]
    /\ UNCHANGED botVars

NextParse == LoadProxies

SpecParse == InitParse /\ [][NextParse]_vars

-----------------------------------------------------------------------------
(* SpecLaunch: the bot with chats that have gone through /setup and send    *)
(* /register and /stop.  Chat 1 has uploaded one email and one event URL;   *)
(* chat 2 has uploaded no event URL, and an email or none: its launches     *)
(* pass both checks and fail on a file.                                     *)

InitLaunch ==
    /\ campaign = NewCampaign
    /\ loop = IdleLoop
    /\ clock = 0
    /\ sent = NoMessage
    /\ stopSeen = {}
    /\ runs = [k \in Slots |-> FreeRun]
    /\ userConfigs = [u \in Users |-> Session(u, Ann, Lee, Org, 1)]
    /\ \E emails \in {NoFile, Prefix(EmailList, 1)} :
          files = [path \in BotPaths |->
                     IF path = EmailsPath(1) THEN Prefix(EmailList, 1)
                     ELSE IF path = EventsPath(1) THEN Prefix(TargetList, 1)
                     ELSE IF path = EmailsPath(2) THEN emails
                     ELSE NoFile]

SpecLaunch == InitLaunch /\ [][NextFair]_vars

-----------------------------------------------------------------------------
(* SpecReply: the command loop from the state NewTelegramBot leaves, with   *)
(* the files of chat 1 in place.  Chat 1 writes every command, a name, the  *)
(* empty text and files; while its wizard is not idle it writes a name, the *)
(* empty text or a file.  Chat 2 is a guest that never goes through /setup. *)
(* The behaviours are those with at most one launch in which the            *)
(* goroutines of the launched campaign take no step.                        *)

ReplyDocs ==
    {EmailsDoc,
     TelegramDocument(<<"d", "a", "t", "a">>, Prefix(EmailList, 1), TRUE),
     TelegramDocument(<<"l", "i", "s", "t">>, Prefix(TargetList, 1), FALSE)}

\* What a chat can send in the state it is in
ReplyMessages(chatID) ==
    LET ReplyTexts ==
            {<<CmdStart>>, <<CmdHelp>>, <<CmdSetup>>, <<CmdStatus>>, <<CmdRegister>>,
             <<CmdStop>>, <<CmdResults>>, <<CmdStats>>, <<CmdConfig>>,
             <<CmdWorkers>>, <<CmdWorkers, <<"1">>>>, <<CmdWorkers, <<"0">>>>,
             <<CmdWorkers, <<"1">>, <<"2">>>>}
                \cup NameTexts
        GuestTexts == {<<CmdRegister>>, <<CmdStop>>, <<CmdStatus>>} \cup NameTexts
    IN
    IF chatID # 1
    THEN {TextMessage(text) : text \in GuestTexts}
    ELSE IF chatID \in DOMAIN userConfigs /\ userConfigs[chatID].State # "idle"
    THEN {TextMessage(text) : text \in NameTexts}
            \cup {DocMessage(doc) : doc \in ReplyDocs}
    ELSE {TextMessage(text) : text \in ReplyTexts}
            \cup {DocMessage(doc) : doc \in ReplyDocs}

InitReply ==
    /\ campaign = NewCampaign
    /\ userConfigs = <<>>
    /\ loop = IdleLoop
    /\ clock = 0
    /\ sent = NoMessage
    /\ stopSeen = {}
    /\ runs = [k \in Slots |-> FreeRun]
    /\ files = [path \in BotPaths |->
                  IF path = EmailsPath(1) THEN Prefix(EmailList, 1)
                  ELSE IF path = EventsPath(1) THEN Prefix(TargetList, 1)
                  ELSE NoFile]

ReceiveOnce(chatID, msg) ==
    /\ (msg.Text = <<CmdRegister>> /\ WouldLaunch(chatID)) => clock = 0
    /\ Receive(chatID, msg)

NextReply ==
    \/ \E chatID \in {1, 2} : \E msg \in ReplyMessages(chatID) : ReceiveOnce(chatID, msg)
    \/ RegisterLoad

SpecReply == InitReply /\ [][NextReply]_vars

-----------------------------------------------------------------------------
(* SpecLocks: the bot with its mutexes.  The handlers of /status, /stop,    *)
(* /setup, /register and of a wizard text are taken in two steps, up to     *)
(* their call of sendMessage and from there to their return, and the        *)
(* completion handler in three: Lock, the writes and Unlock, and the        *)
(* summary.  While the command loop is inside sendMessage, loop.held is the *)
(* set of mutexes it holds; a campaign goroutine holds campaign.mu while    *)
(* its run is at "completing".  The chats are those of SpecLaunch; chat 1   *)
(* launches one campaign, and chat 2 goes through /setup again.             *)

CampaignMu == <<"campaign.mu", 0>>

UserMu(chatID) == <<"userConfig.mu", chatID>>

\* The command loop inside sendMessage, called by a handler that holds the
\* mutexes in held and returns (and unlocks them) after the call
Sending(held, out) ==
    [pc |-> "send", launch |-> NoLaunch, held |-> held, out |-> out]

LoopHeld == IF loop.pc = "send" THEN loop.held ELSE {}

\* sync.Mutex.Lock returns when no one holds the mutex
CampaignMuFree ==
    /\ CampaignMu \notin LoopHeld
    /\ \A k \in Slots : runs[k].pc # "completing"

\* sendStatus up to sendMessage (telegram_bot.go:445-473): the mutex is
\* unlocked by defer, after the message is sent
LockedStatus(chatID) ==
    /\ loop.pc = "poll"
    /\ CampaignMuFree
    /\ loop' = Sending({CampaignMu},
                       IF campaign.running
                       THEN Message(chatID, "campaign_running", Len(campaign.results))
                       ELSE Message(chatID, "no_campaign_running", 0))
    /\ userConfigs' = getUserConfig(chatID)
    /\ UNCHANGED <<runs, campaign, files, clock, sent, stopSeen>>

\* handleStop up to sendMessage (telegram_bot.go:596-607), unlocked by defer
LockedStop(chatID) ==
    /\ loop.pc = "poll"
    /\ CampaignMuFree
    /\ campaign' = [campaign EXCEPT !.running = FALSE]
    /\ stopSeen' = IF campaign.running THEN stopSeen \cup InFlight ELSE stopSeen
    /\ loop' = Sending({CampaignMu},
                       IF campaign.running
                       THEN Message(chatID, "stop_requested", 0)
                       ELSE Message(chatID, "no_campaign", 0))
    /\ userConfigs' = getUserConfig(chatID)
    /\ UNCHANGED <<runs, files, clock, sent>>

\* handleSetup up to sendMessage (telegram_bot.go:353-361): the mutex is
\* unlocked before the message is sent
UnlockedSetup(chatID) ==
    /\ loop.pc = "poll"
    /\ userConfigs' = [getUserConfig(chatID) EXCEPT ![chatID].State = "awaiting_firstname"]
    /\ loop' = Sending({}, Message(chatID, "setup_step1", 0))
    /\ UNCHANGED <<runs, campaign, files, clock, sent, stopSeen>>

\* handleStateInput up to sendMessage (telegram_bot.go:365-399), unlocked by
\* defer
LockedStateInput(chatID, text) ==
    /\ loop.pc = "poll"
    /\ chatID \in DOMAIN userConfigs
    /\ userConfigs[chatID].State # "idle"
    /\ userConfigs' =
         CASE userConfigs[chatID].State = "awaiting_firstname" ->
                [userConfigs EXCEPT ![chatID].FirstName = text,
                                    ![chatID].State = "awaiting_lastname"]
           [] userConfigs[chatID].State = "awaiting_lastname" ->
                [userConfigs EXCEPT ![chatID].LastName = text,
                                    ![chatID].State = "awaiting_org"]
           [] OTHER ->
                [userConfigs EXCEPT ![chatID].Organization = text,
                                    ![chatID].State = "idle"]
    /\ loop' = Sending({UserMu(chatID)},
                       CASE userConfigs[chatID].State = "awaiting_firstname" ->
                              Message(chatID, "setup_step2", 0)
                         [] userConfigs[chatID].State = "awaiting_lastname" ->
                              Message(chatID, "setup_step3", 0)
                         [] OTHER -> Message(chatID, "setup_complete", 0))
    /\ UNCHANGED <<runs, campaign, files, clock, sent, stopSeen>>

\* handleRegister up to its first sendMessage or to the end of its critical
\* section (telegram_bot.go:477-503): both mutexes are unlocked before a
\* message is sent.  As in Receive, a launch that would be accepted is
\* taken only while a slot is free and the cap allows it.
UnlockedRegister(chatID) ==
    /\ loop.pc = "poll"
    /\ CampaignMuFree
    /\ WouldLaunch(chatID) => (FreeSlots # {} /\ clock < MaxLaunch)
    /\ IF SetupMissing(getUserConfig(chatID)[chatID])
       THEN /\ loop' = Sending({}, Message(chatID, "run_setup_first", 0))
            /\ userConfigs' = getUserConfig(chatID)
            /\ UNCHANGED <<runs, campaign, files, clock, sent, stopSeen>>
       ELSE IF campaign.running
       THEN /\ loop' = Sending({}, Message(chatID, "already_running", 0))
            /\ userConfigs' = getUserConfig(chatID)
            /\ UNCHANGED <<runs, campaign, files, clock, sent, stopSeen>>
       ELSE AcceptLaunch(chatID, getUserConfig(chatID), NewlyRunning)

\* sendMessage returns, and the handler after it: the deferred Unlock runs
Deliver ==
    /\ loop.pc = "send"
    /\ sent' = loop.out
    /\ loop' = IdleLoop
    /\ UNCHANGED <<runs, campaign, userConfigs, files, clock, stopSeen>>

\* runCampaign, telegram_bot.go:555: Lock
CompleteLock(k) ==
    /\ runs[k].pc = "returned"
    /\ runs[k].chat # 0
    /\ CampaignMuFree
    /\ runs' = [runs EXCEPT ![k].pc = "completing"]
    /\ UNCHANGED botVars

\* runCampaign, telegram_bot.go:556-558: the writes and Unlock
CompleteWrite(k) ==
    /\ runs[k].pc = "completing"
    /\ campaign' = [campaign EXCEPT !.results = runs[k].allResults,
                                    !.running = FALSE]
    /\ runs' = [runs EXCEPT ![k].pc = "summary"]
    /\ UNCHANGED <<userConfigs, files, loop, clock, sent, stopSeen>>

\* runCampaign, telegram_bot.go:560-592: startTime is read without the
\* mutex (line 575) and the summary is sent
CompleteSummary(k) ==
    /\ runs[k].pc = "summary"
    /\ runs' = [runs EXCEPT ![k].pc = "completed"]
    /\ UNCHANGED botVars

NextLocks ==
    \/ \E chatID \in SessionChats :
          /\ userConfigs[chatID].State = "idle"
          /\ \/ LockedStatus(chatID)
             \/ LockedStop(chatID)
             \/ /\ (chatID = 1 /\ WouldLaunch(1)) => FreeSlots = Slots
                /\ UnlockedRegister(chatID)
             \/ chatID = 2 /\ UnlockedSetup(chatID)
    \/ \E chatID \in SessionChats : LockedStateInput(chatID, Ann)
    \/ Deliver
    \/ RegisterLoad
    \/ \E k \in Slots : RunStep(k)
    \/ \E k \in Slots : CompleteLock(k)
    \/ \E k \in Slots : CompleteWrite(k)
    \/ \E k \in Slots : CompleteSummary(k)

SpecLocks == InitLaunch /\ [][NextLocks]_vars

-----------------------------------------------------------------------------
(* SpecOrder: one Run over two targets and two identities that differ,     *)
(* with one worker or two, so that the order of the four jobs shows in the  *)
(* job channel and in the results.                                          *)

OrderTargets == <<Url1, Url3>>

OrderEmails == SubSeq(EmailList, 2, 3)

InitOrder ==
    /\ BotIdle
    /\ \E c \in {1, 2}, chatID \in CliChatIDs :
          runs = [k \in Slots |->
                    IF k = 1
                    THEN NewRun(NewRegistrationOrchestrator(
                                    Ann, Lee, Org, TRUE, c, chatID),
                                OrderTargets, OrderEmails, <<>>)
                    ELSE FreeRun]

SpecOrder == InitOrder /\ [][NextRun]_vars

-----------------------------------------------------------------------------
(* SpecQuery: the bot with two chats that have gone through /setup and send *)
(* /register, /stop and the commands that only answer.  Chat 1 has uploaded *)
(* two emails and one event URL, so its campaign has two jobs; chat 2 has   *)
(* uploaded one event URL and an emails file without a line, so its         *)
(* campaign has none (handleRegister does not look at the lengths).  Each   *)
(* chat launches one campaign.                                              *)

InitQuery ==
    /\ campaign = NewCampaign
    /\ loop = IdleLoop
    /\ clock = 0
    /\ sent = NoMessage
    /\ stopSeen = {}
    /\ runs = [k \in Slots |-> FreeRun]
    /\ userConfigs = [u \in SessionChats |-> Session(u, Ann, Lee, Org, 1)]
    /\ files = [path \in BotPaths |->
                  IF path = EmailsPath(1) THEN SubSeq(EmailList, 2, 3)
                  ELSE IF path = EmailsPath(2) THEN <<>>
                  ELSE IF path \in {EventsPath(1), EventsPath(2)}
                  THEN Prefix(TargetList, 1)
                  ELSE NoFile]

ReceiveQuery(chatID, text) ==
    /\ (text = <<CmdRegister>> /\ WouldLaunch(chatID))
          => \A k \in Slots : runs[k].chat # chatID
    /\ Receive(chatID, TextMessage(text))

NextQuery ==
    \/ \E chatID \in SessionChats,
          text \in {<<CmdRegister>>, <<CmdStop>>, <<CmdStatus>>, <<CmdResults>>,
                    <<CmdStats>>, <<CmdConfig>>, <<CmdHelp>>, <<CmdStart>>} :
          ReceiveQuery(chatID, text)
    \/ RegisterLoad
    \/ \E k \in Slots : RunStep(k)
    \/ \E k \in Slots : Complete(k)

SpecQuery == InitQuery /\ [][NextQuery]_vars

-----------------------------------------------------------------------------
(* SpecSnapshot: the bot with one chat that has gone through /setup with    *)
(* one worker and has uploaded one email and one event URL.  The chat       *)
(* launches one campaign, and before and after that it goes through /setup  *)
(* with another name, sets two workers and uploads other emails, while the  *)
(* campaign is at work.                                                     *)

InitSnapshot ==
    /\ campaign = NewCampaign
    /\ loop = IdleLoop
    /\ clock = 0
    /\ sent = NoMessage
    /\ stopSeen = {}
    /\ runs = [k \in Slots |-> FreeRun]
    /\ userConfigs = [u \in WizardChats |-> Session(u, Ann, Lee, Org, 1)]
    /\ files = [path \in BotPaths |->
                  IF path = EmailsPath(1) THEN Prefix(EmailList, 1)
                  ELSE IF path = EventsPath(1) THEN Prefix(TargetList, 1)
                  ELSE NoFile]

NextSnapshot ==
    \/ \E chatID \in WizardChats,
          text \in {<<CmdRegister>>, <<CmdSetup>>, <<CmdWorkers, <<"2">>>>} :
          /\ userConfigs[chatID].State = "idle"
          /\ ReceiveText(chatID, text)
    \/ \E chatID \in WizardChats :
          /\ userConfigs[chatID].State # "idle"
          /\ Receive(chatID, TextMessage(Org))
    \/ \E chatID \in WizardChats :
          Receive(chatID, DocMessage(TelegramDocument(<<"e", "m", "a", "i", "l", "s">>,
                                                      SubSeq(EmailList, 3, 4), TRUE)))
    \/ RegisterLoad
    \/ \E k \in Slots : RunStep(k)
    \/ \E k \in Slots : Complete(k)

SpecSnapshot == InitSnapshot /\ [][NextSnapshot]_vars

-----------------------------------------------------------------------------
(* Properties of Run and of the worker, checked under SpecRun *)

Range(s) == {s[i] : i \in 1..Len(s)}

Count(s, x) == Cardinality({i \in 1..Len(s) : s[i] = x})

JobIds(r) == DOMAIN r.hist

AllFailed(h) == \A i \in 1..Len(h.tries) : ~h.tries[i].success

\* C1: when Run returns, the returned list has exactly T*I results, every
\* enqueued job got exactly one result (the one for its email and its event),
\* and the returned list holds each job's result exactly once: as many
\* copies of a result as there are jobs that produced it.
C1_OneResultPerJob ==
    \A k \in Slots :
        LET r == runs[k] IN
        r.pc = "returned" =>
            /\ Len(r.allResults) = Len(r.eventURLs) * Len(r.emails)
            /\ r.completed = Len(r.allResults)
            /\ \A j \in JobIds(r) :
                  /\ r.hist[j].taken = 1
                  /\ Len(r.hist[j].results) = 1
                  /\ r.hist[j].results[1].Email = JobAt(r, j).email
                  /\ r.hist[j].results[1].Event =
                        truncateString(lastPathSegment(JobAt(r, j).eventURL),
                                       EventDisplayLen)
            /\ \A x \in Range(r.allResults) :
                  Count(r.allResults, x) =
                      Cardinality({j \in JobIds(r) : r.hist[j].results = <<x>>})

\* C1 witness: a run with two jobs for the same email and more workers than
\* one job needs has returned
C1_Witness ==
    \E k \in Slots :
        /\ runs[k].pc = "returned"
        /\ runs[k].totalTasks = 2
        /\ runs[k].maxWorkers = 2
        /\ runs[k].emails = <<"a@x.io", "a@x.io">>

\* C5: every result's attempt number is in 1..R; a SUCCESS result carries the
\* number of the first and only successful attempt, which is the last call
\* of the attempt capability for that job; a FAILED result carries R and
\* follows exactly R failed attempts.
C5_AttemptNumber ==
    \A k \in Slots :
        LET r == runs[k] IN
        /\ \A x \in Range(r.results) \cup Range(r.allResults) :
              x.Attempt \in 1..RegistrationRetry
        /\ \A j \in JobIds(r) :
              LET h == r.hist[j] IN
              \A n \in 1..Len(h.results) :
                  LET x == h.results[n] IN
                  /\ x.Attempt \in 1..RegistrationRetry
                  /\ \A i \in 1..Len(h.tries) : h.tries[i].attempt = i
                  /\ x.Status \in {"SUCCESS", "FAILED"}
                  /\ x.Status = "SUCCESS" =>
                        /\ Len(h.tries) = x.Attempt
                        /\ h.tries[x.Attempt].success
                        /\ \A i \in 1..(x.Attempt - 1) : ~h.tries[i].success
                  /\ x.Status = "FAILED" =>
                        /\ x.Attempt = RegistrationRetry
                        /\ Len(h.tries) = RegistrationRetry
                        /\ AllFailed(h)

\* C5 witness: a returned run with a job that succeeded at its second attempt
\* and a job that failed
C5_Witness ==
    \E k \in Slots :
        /\ runs[k].pc = "returned"
        /\ \E x \in Range(runs[k].allResults) :
              x.Status = "SUCCESS" /\ x.Attempt = 2
        /\ \E x \in Range(runs[k].allResults) : x.Status = "FAILED"

\* C6 as claimed: when every attempt fails, every job causes exactly R alerts
\* and its result is FAILED with attempt R and the fixed message.
C6_Claimed ==
    \A k \in Slots :
        LET r == runs[k] IN
        r.pc = "returned" =>
            \A j \in JobIds(r) :
                AllFailed(r.hist[j]) =>
                    /\ Len(r.hist[j].alerts) = RegistrationRetry
                    /\ Len(r.hist[j].results) = 1
                    /\ r.hist[j].results[1].Status = "FAILED"
                    /\ r.hist[j].results[1].Attempt = RegistrationRetry

\* C6 amended: when every attempt of a job fails, the job causes exactly one
\* alert if an alert chat is configured and none otherwise, raised for
\* attempt R, and its result is FAILED with attempt R and the message
\* "Max retries exceeded".
C6_OneAlertPerFailedJob ==
    \A k \in Slots :
        LET r == runs[k] IN
        \A j \in JobIds(r) :
            LET h == r.hist[j] IN
            (h.results # <<>> /\ AllFailed(h)) =>
                /\ Len(h.tries) = RegistrationRetry
                /\ Len(h.alerts) = (IF r.telegramChatID # "" THEN 1 ELSE 0)
                /\ \A i \in 1..Len(h.alerts) :
                      h.alerts[i].attempt = RegistrationRetry
                /\ Len(h.results) = 1
                /\ h.results[1].Status = "FAILED"
                /\ h.results[1].Attempt = RegistrationRetry
                /\ h.results[1].Message = "Max retries exceeded"

\* C6 witness: a returned run with an alert chat and two jobs, all of whose
\* attempts failed
C6_Witness ==
    \E k \in Slots :
        /\ runs[k].pc = "returned"
        /\ runs[k].telegramChatID # ""
        /\ runs[k].totalTasks = 2
        /\ \A j \in JobIds(runs[k]) :
              /\ AllFailed(runs[k].hist[j])
              /\ Len(runs[k].hist[j].tries) = RegistrationRetry

\* What C7 says of every job, given whether a job whose R-th attempt failed
\* must have raised its alert: an alert is raised only once, for attempt R,
\* after R failed attempts; a job that succeeded raised none; at most one
\* alert per job.
AlertOnlyOnFinalFailure(r, h, mustAlert) ==
    /\ Len(h.alerts) <= 1
    /\ h.alerts # <<>> =>
          /\ h.alerts[1].attempt = RegistrationRetry
          /\ Len(h.tries) = RegistrationRetry
          /\ AllFailed(h)
    /\ \A n \in 1..Len(h.results) :
          /\ h.results[n].Status = "SUCCESS" => h.alerts = <<>>
          /\ (h.results[n].Status = "FAILED" /\ mustAlert) => Len(h.alerts) = 1

\* C7 as claimed: alerts are raised only for the failure of attempt R, and
\* every job whose R-th attempt failed has raised its alert by the time its
\* FAILED result is returned.
C7_Claimed ==
    \A k \in Slots : \A j \in JobIds(runs[k]) :
        AlertOnlyOnFinalFailure(runs[k], runs[k].hist[j], TRUE)

\* C7 amended: alerts are raised only for the failure of attempt R (none
\* for an earlier failure, none for a job that succeeds); when an alert chat
\* is configured, a job whose R-th attempt failed has raised its alert by
\* the time its FAILED result is returned; without an alert chat no alert
\* is raised at all.
C7_AlertOnlyOnFinalFailure ==
    \A k \in Slots : \A j \in JobIds(runs[k]) :
        /\ AlertOnlyOnFinalFailure(runs[k], runs[k].hist[j],
                                   runs[k].telegramChatID # "")
        /\ runs[k].telegramChatID = "" => runs[k].hist[j].alerts = <<>>

\* C7 witness: a worker has raised the alert of its job's final failure and
\* has not returned the FAILED result yet, while another job of the run has
\* succeeded after a failed attempt without an alert
C7_Witness ==
    \E k \in Slots : \E w \in DOMAIN runs[k].wk :
        LET r == runs[k]
            me == r.wk[w]
        IN
        /\ me.pc = "exit"
        /\ Len(r.hist[me.job.idx].alerts) = 1
        /\ r.hist[me.job.idx].results = <<>>
        /\ \E j \in JobIds(r) :
              /\ Len(r.hist[j].results) = 1
              /\ r.hist[j].results[1].Status = "SUCCESS"
              /\ r.hist[j].results[1].Attempt = 2
              /\ r.hist[j].alerts = <<>>


-----------------------------------------------------------------------------
(* Properties of the control plane, checked under Spec and SpecFair *)

\* The chat's next text is taken as a command (telegram_bot.go:186-190)
TakesCommands(chatID) ==
    chatID \in DOMAIN userConfigs /\ userConfigs[chatID].State = "idle"

RegisterFrom(chatID) ==
    TakesCommands(chatID) /\ Receive(chatID, TextMessage(<<CmdRegister>>))

StopFrom(chatID) ==
    TakesCommands(chatID) /\ Receive(chatID, TextMessage(<<CmdStop>>))

\* Run k's completion handler runs in this step
Completes(k) == runs[k].pc # "completed" /\ runs'[k].pc = "completed"

AllJobsDone(r) ==
    /\ Len(r.allResults) = Len(r.emails) * Len(r.eventURLs)
    /\ \A j \in JobIds(r) : Len(r.hist[j].results) = 1

\* C2 as claimed: in the bot, at most one Orchestrator run started by a
\* launch is in flight at any time.
C2_Claimed == Cardinality(InFlight) <= 1

\* C2: as long as no stop command has been accepted, at most one campaign is
\* in flight, and running is true while it is.
C2_OneCampaignUntilStop ==
    (stopSeen = {}) =>
        /\ Cardinality(InFlight) <= 1
        /\ (InFlight # {}) => campaign.running

\* A launch has been turned down while the only campaign is at work
C2_Witness ==
    /\ stopSeen = {}
    /\ loop.pc = "poll"
    /\ sent.kind = "already_running"
    /\ \E k \in InFlight : \E w \in Workers(k) : runs[k].wk[w].pc = "try"
    /\ \E k \in Slots : runs[k].pc = "free"

\* C3: a launch command received while running is true is turned down
\* ("already running" when the chat's three names are set, "run /setup
\* first" when one is empty); it starts no run and leaves running, results
\* and startTime as they were.
C3_RunningRejectsLaunch ==
    [][\A u \in Users :
          (campaign.running /\ RegisterFrom(u))
              => /\ sent' = Message(u, IF SetupMissing(userConfigs[u])
                                       THEN "run_setup_first"
                                       ELSE "already_running", 0)
                 /\ UNCHANGED <<campaign, runs, loop, clock, userConfigs, files>>
      ]_vars

\* The chat that did not start the campaign has been turned down
C3_Witness ==
    /\ sent = Message(2, "already_running", 0)
    /\ ~SetupMissing(userConfigs[2])
    /\ loop.pc = "poll"
    /\ campaign.running
    /\ runs[1].chat = 1
    /\ runs[2].pc = "free"

\* C4: a launch command from a chat with an empty first name, last name or
\* organization is answered "run /setup first" whatever running is; it
\* starts no campaign and changes neither the campaign state nor the
\* session.
C4_SetupCheckedFirst ==
    [][\A u \in Users :
          (SetupMissing(userConfigs[u]) /\ RegisterFrom(u))
              => /\ sent' = Message(u, "run_setup_first", 0)
                 /\ UNCHANGED <<campaign, runs, loop, clock, userConfigs, files>>
      ]_vars

\* A chat without an organization has been turned down while a campaign runs
C4_Witness ==
    /\ sent = Message(2, "run_setup_first", 0)
    /\ userConfigs[2].Organization = <<>>
    /\ loop.pc = "poll"
    /\ campaign.running
    /\ InFlight # {}

\* C8: a stop command received while running is true sets running to false
\* and is acknowledged in the same step, which changes no run: no attempt
\* is interrupted and no job leaves a channel.  A stopped run still
\* collects one result for each of its T*I jobs, and its completion
\* handler stores them and sets running to false.
C8_StopIsAdvisory ==
    [][/\ \A u \in Users :
            (campaign.running /\ StopFrom(u))
                => /\ sent' = Message(u, "stop_requested", 0)
                   /\ campaign' = [campaign EXCEPT !.running = FALSE]
                   /\ UNCHANGED <<runs, loop>>
       /\ \A k \in stopSeen :
            Completes(k)
                => /\ AllJobsDone(runs[k])
                   /\ campaign'.results = runs[k].allResults
                   /\ ~campaign'.running
      ]_vars

\* A stopped run has completed and its results are the stored ones
C8_Witness ==
    \E k \in stopSeen :
        /\ runs[k].pc = "completed"
        /\ Len(runs[k].allResults) = 1
        /\ campaign.results = runs[k].allResults
        /\ ~campaign.running

\* The files a launch reads before it starts the campaign can be read
\* (telegram_bot.go:505-517)
FilesRead(l) == ~readEmails(l.emailsFile).err /\ ~readEventURLs(l.eventsFile).err

\* The step in which handleRegister, past its critical section, returns
LaunchReturns == loop.pc = "launch" /\ loop'.pc = "poll"

\* The step starts a run for the launch the loop is at, and only that
StartsRun ==
    \E k \in Slots :
        /\ runs[k].pc = "free"
        /\ runs'[k].pc = "enqueue"
        /\ runs'[k].chat = loop.launch.chat
        /\ runs'[k].jobIndex = 0
        /\ runs'[k].allResults = <<>>
        /\ \A j \in Slots \ {k} : runs'[j] = runs[j]

\* C9 as claimed: every launch that passes both checks goes on to start
\* the Orchestrator run before its handler returns.
C9_Claimed == [][LaunchReturns => StartsRun]_vars

\* C9: a launch that passes both checks sets running, takes a new start
\* time and empties the results in one step.  When its files are then read,
\* the handler starts the Orchestrator run beside the command loop, with no
\* job done yet, and gives the loop back; when a file cannot be read it
\* starts no run and sets running to false.  While a campaign is in flight
\* and the loop is between two messages, a stop or status command of any
\* chat is handled.
C9_LaunchCriticalSection ==
    /\ [][/\ \A u \in Users :
               (~campaign.running /\ ~SetupMissing(userConfigs[u]) /\ RegisterFrom(u))
                   => /\ campaign'.running
                      /\ campaign'.startTime > campaign.startTime
                      /\ campaign'.results = <<>>
                      /\ loop'.pc = "launch"
                      /\ loop'.launch.chat = u
                      /\ UNCHANGED runs
          /\ LaunchReturns
                   => /\ loop' = IdleLoop
                      /\ IF FilesRead(loop.launch)
                         THEN StartsRun /\ UNCHANGED campaign
                         ELSE UNCHANGED runs /\ ~campaign'.running
         ]_vars
    /\ [](\A u \in Users :
            (loop.pc = "poll" /\ InFlight # {} /\ TakesCommands(u))
                => /\ ENABLED Receive(u, TextMessage(<<CmdStop>>))
                   /\ ENABLED Receive(u, TextMessage(<<CmdStatus>>)))

\* The loop has answered a status command while a job of the campaign is
\* being attempted
C9_Witness ==
    /\ sent.kind = "campaign_running"
    /\ loop.pc = "poll"
    /\ campaign.running
    /\ campaign.startTime > 0
    /\ \E k \in InFlight : \E w \in Workers(k) : runs[k].wk[w].pc = "try"

\* C10 as claimed: under fair scheduling every launch that passes both
\* checks is followed by the completion handler of a campaign of its chat.
C10_Claimed ==
    \A u \in Users :
        (loop.pc = "launch" /\ loop.launch.chat = u)
            ~> (\E k \in Slots : runs[k].chat = u /\ runs[k].pc = "completed")

\* C10: under fair scheduling the handler of every launch that passes both
\* checks returns, every campaign that has been started completes, and the
\* step that completes it finds one result for each of the T*I jobs, stores
\* that list as the campaign's results and sets running to false.
C10_CampaignCompletes ==
    /\ (loop.pc = "launch") ~> (loop.pc = "poll")
    /\ \A k \in Slots : (runs[k].pc = "enqueue") ~> (runs[k].pc = "completed")
    /\ [][\A k \in Slots :
            Completes(k)
                => /\ AllJobsDone(runs[k])
                   /\ campaign'.results = runs[k].allResults
                   /\ ~campaign'.running
         ]_vars

\* A campaign nobody stopped has completed
C10_Witness ==
    \E k \in Slots \ stopSeen :
        /\ runs[k].pc = "completed"
        /\ Len(runs[k].emails) * Len(runs[k].eventURLs) = 1
        /\ AllJobsDone(runs[k])
        /\ campaign.results = runs[k].allResults
        /\ ~campaign.running


-----------------------------------------------------------------------------
(* Properties of Run's channels and workers, checked under SpecRun and      *)
(* SpecRunFair                                                              *)

\* The worker is inside ExecuteRegistration, or about to send its result
Busy(me) == me.pc \in {"try", "sleep", "alert", "exit"}

\* C11: under fair scheduling Run returns, for every C >= 1 and every T and
\* I, the empty job set included.  Until then: the enqueue loop can always
\* send its next job; a worker that has a result to send finds the result
\* channel open and not full; the result channel is closed only when every
\* worker is done; and Run returns with both channels empty and every
\* received result collected.
C11_RunReturns ==
    /\ <>(runs[1].pc = "returned")
    /\ [](LET r == runs[1] IN
          /\ (r.pc = "enqueue" /\ r.jobIndex < r.totalTasks) => ENABLED Enqueue(1)
          /\ \A w \in DOMAIN r.wk :
                Busy(r.wk[w]) => (~r.resultsClosed /\ Len(r.results) < r.totalTasks)
          /\ \A w \in DOMAIN r.wk :
                (r.wk[w].pc = "idle" /\ r.jobsClosed /\ r.jobs = <<>>)
                    => ENABLED WorkerExit(1, w)
          /\ r.resultsClosed => \A w \in DOMAIN r.wk : r.wk[w].pc = "done"
          /\ (r.pc = "returned")
                => /\ r.jobs = <<>> /\ r.results = <<>> /\ r.resultsClosed
                   /\ Len(r.allResults) = r.totalTasks)

\* Run has returned with more jobs than workers
C11_Witness ==
    /\ runs[1].pc = "returned"
    /\ runs[1].maxWorkers = 1
    /\ Len(runs[1].allResults) = 2


\* The workers that hold job j
Holders(r, j) == {w \in DOMAIN r.wk : Busy(r.wk[w]) /\ r.wk[w].job.idx = j}

\* How often job j lies in the job channel
Queued(r, j) == Cardinality({i \in 1..Len(r.jobs) : r.jobs[i].idx = j})

\* C12: every enqueued job is at any time in exactly one place: in the job
\* channel, with exactly one worker, or done with its result returned; it
\* is received from the channel at most once, and exactly once by the time
\* Run returns.  No two workers ever hold the same job.
C12_JobTakenOnce ==
    LET r == runs[1] IN
    \A j \in JobIds(r) :
        /\ r.hist[j].taken <= 1
        /\ Cardinality(Holders(r, j)) <= 1
        /\ Queued(r, j) + Cardinality(Holders(r, j)) + Len(r.hist[j].results)
              = IF j < r.jobIndex THEN 1 ELSE 0
        /\ r.hist[j].taken = Cardinality(Holders(r, j)) + Len(r.hist[j].results)
        /\ (r.pc = "returned") => r.hist[j].taken = 1

\* Two workers are at work at once, each on a job of its own
C12_Witness ==
    LET r == runs[1] IN
    /\ r.maxWorkers = 2
    /\ r.wk[0].pc = "try" /\ r.wk[1].pc = "try"
    /\ r.wk[0].job.idx # r.wk[1].job.idx
    /\ r.hist[0].taken = 1 /\ r.hist[1].taken = 1

\* C13: the attempts of a job are numbered 1, 2, ... in the order they are
\* made, every attempt but the last one made has failed, attempt a is about
\* to be made only when a-1 attempts have returned and a-1 backoff sleeps
\* are over, and at most one worker holds the job, so no two attempts of a
\* job are in progress at once.
C13_AttemptsSequential ==
    LET r == runs[1] IN
    \A j \in JobIds(r) :
        LET h == r.hist[j] IN
        /\ Len(h.tries) <= RegistrationRetry
        /\ \A i \in 1..Len(h.tries) : h.tries[i].attempt = i
        /\ \A i \in 1..(Len(h.tries) - 1) : ~h.tries[i].success
        /\ Cardinality(Holders(r, j)) <= 1
        /\ \A w \in Holders(r, j) :
              /\ r.wk[w].pc = "try"
                   => (Len(h.tries) = r.wk[w].attempt - 1
                       /\ Len(h.sleeps) = r.wk[w].attempt - 1)
              /\ r.wk[w].pc = "sleep"
                   => (Len(h.tries) = r.wk[w].attempt
                       /\ Len(h.sleeps) = r.wk[w].attempt - 1)

\* The third attempt of a job is about to be made
C13_Witness ==
    LET r == runs[1] IN
    \E w \in DOMAIN r.wk :
        /\ r.wk[w].pc = "try"
        /\ r.wk[w].attempt = 3
        /\ Len(r.hist[r.wk[w].job.idx].tries) = 2
        /\ Len(r.hist[r.wk[w].job.idx].sleeps) = 2

\* The backoff sleeps of a job that fails every attempt (3^1, 3^2)
Backoffs == <<3, 9>>

\* C14: the k-th sleep of a job lasts 3^k time units and follows the
\* failure of attempt k < R.  A finished job that failed R times has slept
\* R-1 times; one that succeeded at attempt a has slept a-1 times: no sleep
\* follows the failure of attempt R or a success.
C14_Backoff ==
    LET r == runs[1] IN
    \A j \in JobIds(r) :
        LET h == r.hist[j] IN
        /\ Len(h.sleeps) <= RegistrationRetry - 1
        /\ h.sleeps = Prefix(Backoffs, Len(h.sleeps))
        /\ \A k \in 1..Len(h.sleeps) : Len(h.tries) >= k /\ ~h.tries[k].success
        /\ (h.results # <<>>) => Len(h.sleeps) = Len(h.tries) - 1
        /\ (h.results # <<>> /\ AllFailed(h))
              => (Len(h.tries) = RegistrationRetry
                  /\ Len(h.sleeps) = RegistrationRetry - 1)

\* One job has failed R times, another has succeeded at its second attempt
C14_Witness ==
    LET r == runs[1] IN
    /\ r.pc = "returned"
    /\ \E j \in JobIds(r) :
          AllFailed(r.hist[j]) /\ r.hist[j].sleeps = <<3, 9>>
    /\ \E j \in JobIds(r) :
          /\ Len(r.hist[j].tries) = 2
          /\ r.hist[j].tries[2].success
          /\ r.hist[j].sleeps = <<3>>

\* C15: a job whose final-failure alert was handed to Telegram, delivered
\* or not, is held by a worker about to return, or has returned, the FAILED
\* result with attempt R; and Run returns T*I results whatever the
\* deliveries were.
C15_AlertDeliveryIgnored ==
    LET r == runs[1] IN
    /\ \A j \in JobIds(r) :
          LET h == r.hist[j] IN
          (h.alerts # <<>>)
              => /\ Len(h.alerts) = 1
                 /\ \/ h.results = <<>> /\ \E w \in Holders(r, j) : r.wk[w].pc = "exit"
                    \/ h.results = <<FailedResult(JobAt(r, j))>> /\ Holders(r, j) = {}
    /\ (r.pc = "returned") => Len(r.allResults) = Len(r.eventURLs) * Len(r.emails)

\* Run has returned two FAILED results, one job's alert was delivered and
\* the other's was not
C15_Witness ==
    LET r == runs[1] IN
    /\ r.pc = "returned"
    /\ Len(r.allResults) = 2
    /\ \A i \in 1..2 : r.allResults[i].Status = "FAILED"
                       /\ r.allResults[i].Attempt = RegistrationRetry
    /\ \E j \in JobIds(r) : r.hist[j].alerts # <<>> /\ r.hist[j].alerts[1].delivered
    /\ \E j \in JobIds(r) : r.hist[j].alerts # <<>> /\ ~r.hist[j].alerts[1].delivered


-----------------------------------------------------------------------------
(* Properties of the proxy selection, checked under SpecProxy *)

\* Job j gets one more attempt in this step
Attempted(j) == Len(runs'[1].hist[j].tries) = Len(runs[1].hist[j].tries) + 1

\* The proxy the attempt made in this step for job j was made with
ProxyUsed(j) == runs'[1].hist[j].tries[Len(runs'[1].hist[j].tries)].proxy

\* The proxy at index n mod the length of the list, none for the empty list
ProxyAt(proxies, n) ==
    IF proxies = <<>> THEN NoProxy ELSE proxies[(n % Len(proxies)) + 1]

\* C16: every attempt is made with the proxy at index (w mod n) of the
\* list, w being the index of the worker that makes it, and with no proxy
\* when the list is empty; the list never changes during Run, so a worker
\* uses the same proxy for all its attempts.
C16_ProxyOfWorker ==
    [][/\ runs'[1].proxies = runs[1].proxies
       /\ \A j \in JobIds(runs[1]) :
            Attempted(j)
                => \E w \in Holders(runs[1], j) :
                      /\ runs[1].wk[w].pc = "try"
                      /\ ProxyUsed(j) = ProxyAt(runs[1].proxies, w)
      ]_vars

\* Worker 1 has made all three attempts of a job with the second of two
\* proxies
C16_Witness ==
    LET r == runs[1] IN
    /\ Len(r.proxies) = 2
    /\ \E j \in JobIds(r) :
          /\ Len(r.hist[j].tries) = 3
          /\ \A i \in 1..3 : r.hist[j].tries[i].proxy = r.proxies[2]

\* C17 as claimed: the job at position j of the enumeration carries the
\* worker index j mod C, and every attempt of the job is made with the
\* proxy that index picks.
C17_Claimed ==
    LET r == runs[1] IN
    \A j \in JobIds(r) :
        /\ j < r.jobIndex => JobAt(r, j).workerID = j % r.maxWorkers
        /\ \A i \in 1..Len(r.hist[j].tries) :
              r.hist[j].tries[i].proxy = ProxyAt(r.proxies, j % r.maxWorkers)


-----------------------------------------------------------------------------
(* Properties of the progress counters, checked under SpecRun *)

Successes(results) ==
    Cardinality({i \in 1..Len(results) : results[i].Status = "SUCCESS"})

\* The collector receives a result from the result channel in this step
Received == runs[1].results # <<>> /\ runs'[1].results = Tail(runs[1].results)

\* C18: completed and successCount never decrease; a step in which the
\* collector receives a result adds 1 to completed and adds 1 to
\* successCount exactly when the result is SUCCESS, and no other step
\* changes either; successCount <= completed <= T*I always, and completed
\* is T*I when Run has returned.
C18_ProgressCounters ==
    /\ [][LET r == runs[1]
              q == runs'[1]
          IN
          /\ q.completed >= r.completed
          /\ q.successCount >= r.successCount
          /\ IF Received
             THEN /\ q.completed = r.completed + 1
                  /\ q.successCount = r.successCount +
                        (IF Head(r.results).Status = "SUCCESS" THEN 1 ELSE 0)
             ELSE /\ q.completed = r.completed
                  /\ q.successCount = r.successCount
         ]_vars
    /\ [](LET r == runs[1] IN
          /\ 0 <= r.successCount
          /\ r.successCount <= r.completed
          /\ r.completed <= Len(r.eventURLs) * Len(r.emails)
          /\ r.completed = Len(r.allResults)
          /\ r.successCount = Successes(r.allResults)
          /\ (r.pc = "returned")
                => r.completed = Len(r.eventURLs) * Len(r.emails))

\* Run has returned after one success and one failure
C18_Witness ==
    /\ runs[1].pc = "returned"
    /\ runs[1].completed = 2
    /\ runs[1].successCount = 1


-----------------------------------------------------------------------------
(* Properties of the setup wizard, checked under SpecWizard *)

\* The wizard step after a step
NextStep(state) ==
    CASE state = "idle" -> "awaiting_firstname"
      [] state = "awaiting_firstname" -> "awaiting_lastname"
      [] state = "awaiting_lastname" -> "awaiting_org"
      [] OTHER -> "idle"

\* The session a text line of the wizard leaves: the text stored in the
\* field of the current step, the next step entered
StepTaken(userConfig, text) ==
    CASE userConfig.State = "awaiting_firstname" ->
           [userConfig EXCEPT !.FirstName = text, !.State = "awaiting_lastname"]
      [] userConfig.State = "awaiting_lastname" ->
           [userConfig EXCEPT !.LastName = text, !.State = "awaiting_org"]
      [] OTHER ->
           [userConfig EXCEPT !.Organization = text, !.State = "idle"]

WizardMessages ==
    {TextMessage(text) : text \in WizardTexts} \cup {DocMessage(EmailsDoc)}

\* C19 as claimed: the wizard state changes only to the next step, /setup
\* moves idle to the first step, and every input received from a chat
\* whose wizard is not idle moves the wizard to the next step.
C19_Claimed ==
    [][\A u \in WizardChats :
          LET state == userConfigs[u].State IN
          /\ userConfigs'[u].State \in {state, NextStep(state)}
          /\ (state = "idle" /\ Receive(u, TextMessage(<<CmdSetup>>)))
                => userConfigs'[u].State = "awaiting_firstname"
          /\ \A msg \in WizardMessages :
                (state # "idle" /\ Receive(u, msg))
                    => userConfigs'[u].State = NextStep(state)
      ]_vars

\* C19: the wizard state changes only to the next step of idle, awaiting
\* first name, awaiting last name, awaiting organization, idle.  /setup
\* moves idle to the first step and no other text moves idle; every text
\* line received while the wizard is not idle, the empty one and commands
\* included, is stored in the field of the current step and moves the
\* wizard exactly one step on; a file attachment leaves the session as it
\* is.
C19_WizardLinear ==
    [][\A u \in WizardChats :
          LET userConfig == userConfigs[u] IN
          /\ userConfigs'[u].State \in {userConfig.State, NextStep(userConfig.State)}
          /\ \A text \in WizardTexts :
                Receive(u, TextMessage(text))
                    => userConfigs'[u] =
                          IF userConfig.State # "idle"
                          THEN StepTaken(userConfig, text)
                          ELSE IF text = <<CmdSetup>>
                          THEN [userConfig EXCEPT !.State = "awaiting_firstname"]
                          ELSE userConfig
          /\ Receive(u, DocMessage(EmailsDoc)) => userConfigs'[u] = userConfig
      ]_vars

\* The wizard is through with an empty first name and two commands as the
\* other names
C19_Witness ==
    /\ userConfigs[1].State = "idle"
    /\ userConfigs[1].FirstName = <<>>
    /\ userConfigs[1].LastName = <<CmdRegister>>
    /\ userConfigs[1].Organization = <<CmdSetup>>
    /\ sent.kind = "setup_complete"

\* C20: a text line received while the chat's wizard is not idle is
\* answered by the wizard step and changes nothing but the session: no
\* campaign is launched or stopped by it, whatever the text.  A text line
\* received while the wizard is idle leaves the three names as they are,
\* and there /register launches and /stop stops.
C20_WizardTakesText ==
    [][\A u \in WizardChats, text \in WizardTexts :
          LET userConfig == userConfigs[u] IN
          Receive(u, TextMessage(text))
             => IF userConfig.State # "idle"
                THEN /\ sent'.kind \in {"setup_step2", "setup_step3", "setup_complete"}
                     /\ userConfigs'[u] = StepTaken(userConfig, text)
                     /\ UNCHANGED <<campaign, runs, loop, clock, files, stopSeen>>
                ELSE /\ userConfigs'[u].FirstName = userConfig.FirstName
                     /\ userConfigs'[u].LastName = userConfig.LastName
                     /\ userConfigs'[u].Organization = userConfig.Organization
                     /\ (text = <<CmdRegister>> /\ WouldLaunch(u))
                           => (campaign'.running /\ loop'.pc = "launch")
                     /\ (text = <<CmdStop>> /\ campaign.running)
                           => (~campaign'.running /\ sent'.kind = "stop_requested")
      ]_vars

\* /stop has been taken as the first name while the campaign is running
C20_Witness ==
    /\ campaign.running
    /\ InFlight # {}
    /\ userConfigs[1].State = "awaiting_lastname"
    /\ userConfigs[1].FirstName = <<CmdStop>>
    /\ sent.kind = "setup_step2"

-----------------------------------------------------------------------------
(* Properties of the sessions, checked under SpecSession *)

\* The arguments of /workers with the integer each one is, where it is one
\* in 1..200
WorkersAccepted ==
    {<<<<"1">>, 1>>, <<<<"2", "0", "0">>, 200>>}

WorkersRejected ==
    {<<"0">>, <<"2", "0", "1">>, <<"-", "1">>, <<"x">>}

\* The limit of a chat before a message: the default when the chat has no
\* session yet
LimitBefore(u) ==
    IF u \in DOMAIN userConfigs THEN userConfigs[u].MaxWorkers ELSE 20

\* C21: every session's concurrency limit is in 1..200 in every reachable
\* state.  A session's first limit is 20; /workers with an integer n in
\* 1..200 sets the limit to n; /workers with an argument that is no
\* integer, is below 1 or is above 200 is answered with a message to the
\* chat and leaves the limit as it was.
C21_WorkersInRange ==
    /\ [](\A u \in DOMAIN userConfigs : userConfigs[u].MaxWorkers \in 1..200)
    /\ [][\A u \in SessionChats :
            /\ (u \notin DOMAIN userConfigs /\ Receive(u, TextMessage(<<CmdConfig>>)))
                  => userConfigs'[u].MaxWorkers = 20
            /\ \A c \in WorkersAccepted :
                  Receive(u, TextMessage(<<CmdWorkers, c[1]>>))
                     => userConfigs'[u].MaxWorkers = c[2]
            /\ \A arg \in WorkersRejected :
                  Receive(u, TextMessage(<<CmdWorkers, arg>>))
                     => /\ userConfigs'[u].MaxWorkers = LimitBefore(u)
                        /\ sent' = Message(u, "workers_invalid", 0)
         ]_vars

\* A chat's limit has been set to 200 and an argument of 201 has been
\* rejected after it
C21_Witness ==
    /\ 1 \in DOMAIN userConfigs
    /\ userConfigs[1].MaxWorkers = 200
    /\ sent = Message(1, "workers_invalid", 0)

\* The texts that leave a session as it is
Readers == {<<CmdConfig>>, <<CmdWorkers>>} \cup NameTexts

\* C22: a chat has no session before its first message and one session
\* from then on.  The first message creates it with the defaults (wizard
\* idle, limit 20, no names) before the message is handled; a message that
\* sets nothing leaves the chat's session as it is; and a message from a
\* chat leaves every other chat's session, and the set of the other
\* sessions, as it is.
C22_SessionPerUser ==
    [][\A u \in SessionChats, text \in SessionTexts :
          Receive(u, TextMessage(text))
             => /\ DOMAIN userConfigs' = DOMAIN userConfigs \cup {u}
                /\ \A v \in DOMAIN userConfigs \ {u} :
                      userConfigs'[v] = userConfigs[v]
                /\ u \notin DOMAIN userConfigs
                      => /\ text \in Readers
                            => userConfigs'[u] = NewUserConfig(u)
                         /\ text = <<CmdSetup>>
                            => userConfigs'[u] =
                                  [NewUserConfig(u) EXCEPT !.State = "awaiting_firstname"]
                /\ (u \in DOMAIN userConfigs /\ userConfigs[u].State = "idle"
                        /\ text \in Readers)
                      => userConfigs'[u] = userConfigs[u]
      ]_vars

\* Both chats have a session that is no longer the default one, and chat 2
\* wrote last
C22_Witness ==
    /\ DOMAIN userConfigs = {1, 2}
    /\ userConfigs[1].FirstName = Ann
    /\ userConfigs[1].MaxWorkers = 200
    /\ userConfigs[2].State = "awaiting_lastname"
    /\ userConfigs[2].MaxWorkers = 1
    /\ sent.chat = 2

-----------------------------------------------------------------------------
(* Properties of the file uploads, checked under SpecUpload *)

\* The role each name is to get
RoleOf ==
    (<<"e", "m", "a", "i", "l", "s">> :> "identities")
 @@ (<<"E", "V", "E", "N", "T", "S">> :> "targets")
 @@ (<<"l", "i", "s", "t">> :> "targets")
 @@ (<<"p", "r", "o", "x", "y">> :> "proxies")
 @@ (<<"P", "r", "o", "x", "i", "e", "s">> :> "proxies")
 @@ (<<"e", "m", "a", "i", "l", "l", "i", "s", "t">> :> "identities")
 @@ (<<"l", "i", "s", "t", "p", "r", "o", "x", "y">> :> "targets")
 @@ (<<"p", "r", "o", "x", "y", "E", "m", "a", "i", "l">> :> "identities")
 @@ (<<"d", "a", "t", "a">> :> "none")

\* The file of a role in the session of a chat
RoleFile(role, userConfig) ==
    CASE role = "identities" -> userConfig.EmailsFile
      [] role = "targets" -> userConfig.EventsFile
      [] role = "proxies" -> userConfig.ProxiesFile

\* C23: the role of an uploaded file is the first one, in the order
\* identities, targets, proxies, whose word is in the lower-cased name:
\* "email"; "event" or "list"; "proxy" or "proxies".  A downloaded file
\* replaces the file of its role in the uploading chat's session and
\* nothing else; a name with none of the words is answered with the
\* guidance message and no file changes.
C23_UploadRole ==
    [][\A u \in SessionChats, doc \in UploadDocs :
          Receive(u, DocMessage(doc))
             => LET role == RoleOf[doc.FileName] IN
                IF role = "none"
                THEN files' = files /\ sent' = Message(u, "unknown_file", 0)
                ELSE IF doc.reachable
                THEN /\ files' = [files EXCEPT
                                    ![RoleFile(role, userConfigs'[u])] = doc.lines]
                     /\ sent' = Message(u, "uploaded", 0)
                ELSE sent' = Message(u, "download_failed", 0)
      ]_vars

\* A file named for two roles went to the first of them, and the file of
\* the other role is still missing
C23_Witness ==
    /\ files[EmailsPath(1)] = Prefix(EmailList, 2)
    /\ files[EventsPath(1)] = NoFile
    /\ files[ProxiesPath] = NoFile

\* The files a chat's campaign reads
FilesOf(userConfig) ==
    {userConfig.EmailsFile, userConfig.EventsFile, userConfig.ProxiesFile}

\* C24 as claimed: the files of two sessions are different files for each
\* role, and an upload by a chat changes no file another chat's campaign
\* reads.
C24_Claimed ==
    /\ [](\A u, v \in DOMAIN userConfigs :
            u # v => /\ userConfigs[u].EmailsFile # userConfigs[v].EmailsFile
                     /\ userConfigs[u].EventsFile # userConfigs[v].EventsFile
                     /\ userConfigs[u].ProxiesFile # userConfigs[v].ProxiesFile)
    /\ [][\A u \in SessionChats, doc \in UploadDocs :
            Receive(u, DocMessage(doc))
               => \A v \in DOMAIN userConfigs \ {u} :
                     \A path \in FilesOf(userConfigs[v]) : files'[path] = files[path]
         ]_vars

-----------------------------------------------------------------------------
(* Properties of the proxy parser, checked under SpecParse *)

\* The proxy file has been read
Loaded == runs[1].pc # "free" /\ files[ProxiesPath] # NoFile

\* The line of the proxy file and what the parser made of it
ProxyLine == files[ProxiesPath][1]

Parsed == runs[1].proxies

\* The fields of FieldPool that are integers
IntegerFields == {<<"8", "0">>, <<"-", "8">>}

\* C29: a line of four fields f0:f1:f2:f3 that reaches the colon rules (no
\* "://", no "@", no "#" in front, no markdown link) gives server
\* http://f0:f1 with username f2 and password f3 when f1 is an integer,
\* whether f3 is one too or not; else server http://f2:f3 with username f0
\* and password f1 when f3 is an integer; else no credential.
C29_FourFields ==
    Loaded =>
        \A f0, f1 \in FieldPool : \A f2, f3 \in FieldPool :
            ProxyLine = Colon(Colon(f0, f1), Colon(f2, f3))
               => Parsed =
                     IF f1 \in IntegerFields
                     THEN <<[Server |-> HttpServer(f0, f1),
                             Username |-> f2, Password |-> f3]>>
                     ELSE IF f3 \in IntegerFields
                     THEN <<[Server |-> HttpServer(f2, f3),
                             Username |-> f0, Password |-> f1]>>
                     ELSE <<>>

\* A line whose second and fourth fields are both integers has been read
\* as host, port, user, password
C29_Witness ==
    /\ Loaded
    /\ ProxyLine = <<"h", ":", "8", "0", ":", "8", "x", ":", "-", "8">>
    /\ Parsed = <<[Server |-> <<"h", "t", "t", "p", ":", "/", "/", "h", ":", "8", "0">>,
                   Username |-> <<"8", "x">>, Password |-> <<"-", "8">>]>>

\* scheme://host:port with a scheme, a host and a port of digits
WellFormedServer(server) ==
    LET i == Index(server, <<":", "/", "/">>)
        j == LastIndex(server, <<":">>)
    IN  /\ i > 0
        /\ j > i + 3
        /\ j + 1 < Len(server)
        /\ \A n \in (j + 2)..Len(server) : IsDigit(server[n])

\* C30 as claimed: every credential the parser returns has a server of the
\* form scheme://host:port with a scheme and a host that are not empty and
\* a port made of decimal digits.
C30_Claimed ==
    Loaded => \A n \in 1..Len(Parsed) : WellFormedServer(Parsed[n].Server)

-----------------------------------------------------------------------------
(* Properties of the launch, checked under SpecLaunch *)

\* The launch in progress cannot read its identity file or its target file
LaunchFileMissing ==
    /\ loop.pc = "launch"
    /\ \/ files[loop.launch.emailsFile] = NoFile
       \/ files[loop.launch.eventsFile] = NoFile

\* C28: when a launch has passed the setup and running checks and the
\* identity file or the target file cannot be read, the launch handler
\* returns with no run started, running false and the failure told to the
\* chat; and a launch that finds the setup done and running false is
\* accepted, whatever came before.
C28_FailedLaunchUnblocks ==
    [][/\ (LaunchFileMissing /\ RegisterLoad)
            => /\ runs' = runs
               /\ ~campaign'.running
               /\ loop' = IdleLoop
               /\ sent'.chat = loop.launch.chat
               /\ sent'.kind =
                     IF files[loop.launch.emailsFile] = NoFile
                     THEN "emails_failed" ELSE "events_failed"
       /\ \A u \in Users :
             (Receive(u, TextMessage(<<CmdRegister>>)) /\ ~campaign.running)
                => (campaign'.running /\ loop'.pc = "launch" /\ loop'.launch.chat = u)
      ]_vars

\* After a launch that failed on the target file and with no run in
\* flight, the next launch has been accepted
C28_Witness ==
    /\ sent = Message(2, "events_failed", 0)
    /\ InFlight = {}
    /\ loop.pc = "launch"
    /\ clock = 2

-----------------------------------------------------------------------------
(* Properties of the replies, checked under SpecReply *)

\* The wizard state and the names of a chat before a message
StateBefore(u) ==
    IF u \in DOMAIN userConfigs THEN userConfigs[u].State ELSE "idle"

SetupDoneBefore(u) ==
    u \in DOMAIN userConfigs /\ ~SetupMissing(userConfigs[u])

\* The messages an input can be answered with; one for each rejected input
Answers(u, msg) ==
    CASE msg.Document # NoDoc ->
           IF msg.Document.FileName = <<"d", "a", "t", "a">>
           THEN {"unknown_file"} ELSE {"download_failed", "uploaded"}
      [] StateBefore(u) # "idle" ->
           {"setup_step2", "setup_step3", "setup_complete"}
      [] msg.Text \in NameTexts -> {"unknown_command"}
      [] msg.Text = <<CmdWorkers, <<"0">>>> -> {"workers_invalid"}
      [] msg.Text = <<CmdRegister>> /\ ~SetupDoneBefore(u) -> {"run_setup_first"}
      [] msg.Text = <<CmdRegister>> /\ campaign.running -> {"already_running"}
      [] msg.Text = <<CmdStop>> /\ ~campaign.running -> {"no_campaign"}
      [] OTHER ->
           {"welcome", "help", "setup_step1", "workers_current", "workers_usage",
            "workers_updated", "campaign_running", "no_campaign_running",
            "stop_requested", "no_results", "results", "stats", "config"}

\* C27: every text line and every file, in every wizard state and with the
\* campaign running or not, is answered with a message to the chat it came
\* from: the handler sends it before it returns, and for an accepted launch
\* the handler goes on to read the files and then sends the failure or the
\* start of the campaign.  An unknown command, a bad concurrency value, a
\* launch before setup, a launch while running, a stop with nothing running
\* and a file name with no role are each answered with their explanation.
C27_EveryInputAnswered ==
    [][/\ \A u \in {1, 2} : \A msg \in ReplyMessages(u) :
             Receive(u, msg)
                => IF msg.Text = <<CmdRegister>> /\ WouldLaunch(u)
                   THEN loop'.pc = "launch" /\ loop'.launch.chat = u
                   ELSE /\ sent'.chat = u
                        /\ sent'.kind \in Answers(u, msg)
                        /\ loop'.pc = "poll"
       /\ RegisterLoad
             => /\ sent'.chat = loop.launch.chat
                /\ sent'.kind \in {"emails_failed", "events_failed", "campaign_started"}
                /\ loop'.pc = "poll"
      ]_vars

\* With the campaign running and chat 1 in the middle of the wizard, the
\* guest's launch has been answered
C27_Witness ==
    /\ campaign.running
    /\ InFlight # {}
    /\ 1 \in DOMAIN userConfigs
    /\ userConfigs[1].State = "awaiting_org"
    /\ sent = Message(2, "run_setup_first", 0)

-----------------------------------------------------------------------------
(* Properties of the mutexes, checked under SpecLocks *)

\* C25 as claimed: while the command loop is inside sendMessage, the
\* handler that called it holds neither campaign.mu nor the mutex of a
\* session.
C25_Claimed == loop.pc = "send" => loop.held = {}

\* The command loop is about to write running without the mutex: its
\* launch cannot read a file (telegram_bot.go:507, 514)
LoopWritesUnlocked ==
    /\ loop.pc = "launch"
    /\ \/ files[loop.launch.emailsFile] = NoFile
       \/ files[loop.launch.eventsFile] = NoFile

\* C26 as claimed: CampaignState is written only by the holder of
\* campaign.mu (the critical section of the launch, the stop, the
\* completion handler), and while a campaign goroutine is in its critical
\* section the command loop is not at a write of CampaignState.
C26_Claimed ==
    /\ [][campaign' # campaign
             => \/ loop.pc = "poll" /\ loop'.pc = "launch"
                \/ CampaignMu \in LoopHeld'
                \/ \E k \in Slots : runs[k].pc = "completing" /\ runs'[k].pc = "summary"
         ]_vars
    /\ [](LoopWritesUnlocked => \A k \in Slots : runs[k].pc # "completing")

-----------------------------------------------------------------------------
(* Properties of the parser's rules, checked under SpecParse *)

\* A line with "@" and without "://" that is no comment and no markdown link
AtLine ==
    /\ Loaded
    /\ Contains(ProxyLine, <<"@">>)
    /\ ~Contains(ProxyLine, <<":", "/", "/">>)
    /\ TrimSpace(ProxyLine) = ProxyLine
    /\ ProxyLine[1] # "#"
    /\ ~Contains(ProxyLine, <<"[">>)

\* The line is user:pass@host:port with an integer port
AtShape(line) ==
    /\ Len(Split(line, <<"@">>)) = 2
    /\ Len(Split(Split(line, <<"@">>)[1], <<":">>)) = 2
    /\ Len(Split(Split(line, <<"@">>)[2], <<":">>)) = 2
    /\ ~Atoi(Split(Split(line, <<"@">>)[2], <<":">>)[2]).err

\* C31 as claimed: a line with "@" and without "://" gives server
\* http://host:port, username user and password pass when it is
\* user:pass@host:port with an integer port, and no credential otherwise:
\* the colon rules are not applied to it.
C31_Claimed ==
    AtLine =>
        Parsed =
            IF AtShape(ProxyLine)
            THEN LET left == Split(Split(ProxyLine, <<"@">>)[1], <<":">>)
                     right == Split(Split(ProxyLine, <<"@">>)[2], <<":">>)
                 IN  <<[Server |-> HttpServer(right[1], right[2]),
                        Username |-> left[1], Password |-> left[2]]>>
            ELSE <<>>


\* The line has one of the shapes without "://": user:pass@host:port, four
\* fields with an integer second or fourth field, two fields with an integer
\* second field
ColonShape(s) ==
    LET parts == Split(s, <<":">>)
    IN  \/ AtShape(s)
        \/ Len(parts) = 4 /\ (~Atoi(parts[2]).err \/ ~Atoi(parts[4]).err)
        \/ Len(parts) = 2 /\ ~Atoi(parts[2]).err

\* The line is scheme://authority... with a scheme of letters and digits and
\* an authority (up to the first "/", "?" or "#") without ":", so without
\* a port
NoPortURL(s) ==
    LET i == Index(s, <<":", "/", "/">>)
        authority ==
            Before(Before(Before(From(s, i + 3), <<"/">>), <<"?">>), <<"#">>)
    IN  /\ i >= 1
        /\ \A n \in 1..i : IsLetter(s[n]) \/ IsDigit(s[n])
        /\ ~Contains(authority, <<":">>)

\* A blank line, a comment, or a line of none of the accepted shapes
Malformed(line) ==
    LET s == TrimSpace(line)
    IN  \/ s = <<>>
        \/ s[1] = "#"
        \/ /\ ~Contains(s, <<"[">>)
           /\ IF Contains(s, <<":", "/", "/">>) THEN NoPortURL(s)
              ELSE ~ColonShape(s)

-----------------------------------------------------------------------------
(* Properties of the order of jobs and results, checked under SpecOrder *)

\* The pairs of SpecOrder's run, all identities of the first target and then
\* all identities of the second
TargetMajor ==
    <<<<OrderTargets[1], OrderEmails[1]>>, <<OrderTargets[1], OrderEmails[2]>>,
      <<OrderTargets[2], OrderEmails[1]>>, <<OrderTargets[2], OrderEmails[2]>>>>

\* The result r is a result of the pair
ResultOf(r, pair) ==
    /\ r.Email = pair[2]
    /\ r.Event = truncateString(lastPathSegment(pair[1]), EventDisplayLen)

\* C33: the n-th job put on the job channel is the n-th pair in target-major,
\* identity-minor order, so the channel holds a stretch of that order at any
\* time; and with one worker the results collected so far are the results of
\* the first pairs in that order, so the returned list is in that order.
C33_TargetMajor ==
    /\ \A p \in 1..Len(runs[1].jobs) :
          LET n == runs[1].jobIndex - Len(runs[1].jobs) + p
          IN  /\ runs[1].jobs[p].eventURL = TargetMajor[n][1]
              /\ runs[1].jobs[p].email = TargetMajor[n][2]
    /\ runs[1].maxWorkers = 1
          => \A n \in 1..Len(runs[1].allResults) :
                ResultOf(runs[1].allResults[n], TargetMajor[n])

\* A run with one worker has returned its four results
C33_Witness ==
    /\ runs[1].pc = "returned"
    /\ runs[1].maxWorkers = 1
    /\ Len(runs[1].allResults) = 4
    /\ ResultOf(runs[1].allResults[2], <<Url1, EmailList[3]>>)
    /\ ResultOf(runs[1].allResults[3], <<Url3, EmailList[2]>>)


-----------------------------------------------------------------------------
(* Properties of the shared campaign state, checked under SpecLaunch *)

\* A campaign that was in flight when a stop was accepted still has a worker
\* inside an attempt
StoppedAtWork ==
    \E k \in stopSeen \cap InFlight :
        \E w \in Workers(k) : runs[k].wk[w].pc = "try"

\* C34: a stop received while running is true sets running to false and is
\* acknowledged; and a launch from a chat whose setup is done, received
\* while running is false, is accepted (running becomes true and the
\* handler goes on to read the files) whatever the runs in flight are doing:
\* the jobs of a stopped campaign that are still executing do not block it
\* and are not touched by it.
C34_LaunchAfterStop ==
    [][\A u \in Users :
          /\ (campaign.running /\ StopFrom(u))
                => /\ ~campaign'.running
                   /\ sent' = Message(u, "stop_requested", 0)
          /\ (~campaign.running /\ ~SetupMissing(userConfigs[u]) /\ RegisterFrom(u))
                => /\ campaign'.running
                   /\ loop'.pc = "launch"
                   /\ loop'.launch.chat = u
                   /\ runs' = runs
      ]_vars

\* A launch has been accepted while the stopped campaign is inside an attempt
C34_Witness ==
    /\ StoppedAtWork
    /\ loop.pc = "launch"
    /\ campaign.running


\* C35 as claimed: whenever running is false and no stop has been accepted
\* since the last accepted launch, no campaign is in flight.  A campaign in
\* flight that is not in stopSeen was launched after the last accepted stop,
\* so the last accepted launch is after it too: the claim says that while
\* running is false every campaign in flight has seen a stop.
C35_Claimed == ~campaign.running => InFlight \subseteq stopSeen


-----------------------------------------------------------------------------
(* Properties of the queries, checked under SpecQuery *)

\* The launch handler accepts a launch in this step
Accepts == loop.pc = "poll" /\ loop'.pc = "launch"

-----------------------------------------------------------------------------
(* Properties of a campaign's inputs, checked under SpecSnapshot *)

\* What a campaign submits and how many workers it uses
Snapshot(r) ==
    [firstName |-> r.firstName, lastName |-> r.lastName,
     organization |-> r.organization, maxWorkers |-> r.maxWorkers,
     workers |-> DOMAIN r.wk, emails |-> r.emails, eventURLs |-> r.eventURLs,
     proxies |-> r.proxies]

\* C37: the launch handler copies the session's three names, worker limit
\* and file paths when it accepts the launch and reads the files before it
\* returns, with no other message handled in between; the campaign it
\* starts runs with those values, and no later step (a wizard step, a
\* /workers command, an upload) changes the names, the worker limit, the
\* workers or the lists of a campaign that has been started.
C37_LaunchSnapshot ==
    [][/\ \A u \in WizardChats :
             (Accepts /\ loop'.launch.chat = u)
                => /\ loop'.launch.firstName = userConfigs[u].FirstName
                   /\ loop'.launch.lastName = userConfigs[u].LastName
                   /\ loop'.launch.organization = userConfigs[u].Organization
                   /\ loop'.launch.maxWorkers = userConfigs[u].MaxWorkers
                   /\ loop'.launch.emailsFile = userConfigs[u].EmailsFile
                   /\ loop'.launch.eventsFile = userConfigs[u].EventsFile
       /\ loop.pc = "launch" => (files' = files /\ userConfigs' = userConfigs)
       /\ \A k \in Slots :
             /\ (runs[k].pc = "free" /\ runs'[k].pc # "free")
                   => Snapshot(runs'[k]) =
                         [firstName |-> loop.launch.firstName,
                          lastName |-> loop.launch.lastName,
                          organization |-> loop.launch.organization,
                          maxWorkers |-> loop.launch.maxWorkers,
                          workers |-> 0..(loop.launch.maxWorkers - 1),
                          emails |-> files[loop.launch.emailsFile],
                          eventURLs |-> files[loop.launch.eventsFile],
                          proxies |-> <<>>]
             /\ runs[k].pc # "free" => Snapshot(runs'[k]) = Snapshot(runs[k])
      ]_vars

\* A campaign launched with one worker, the first name and the first email
\* is inside an attempt after the chat has changed its name, its worker
\* limit and its emails file
C37_Witness ==
    /\ userConfigs[1].FirstName = Org
    /\ userConfigs[1].MaxWorkers = 2
    /\ files[EmailsPath(1)] = SubSeq(EmailList, 3, 4)
    /\ \E k \in InFlight :
          /\ Snapshot(runs[k]).firstName = Ann
          /\ Snapshot(runs[k]).workers = {0}
          /\ Snapshot(runs[k]).emails = Prefix(EmailList, 1)
          /\ runs[k].wk[0].pc = "try"


\* A campaign launched by another chat than u is in flight and running is
\* true
OthersCampaign(u) ==
    /\ campaign.running
    /\ \E k \in InFlight : runs[k].chat # u
    /\ \A k \in Slots : runs[k].chat # u

\* C38: there is one running flag and one result list for all chats.  While
\* running is true for a campaign of another chat, a launch of a chat that
\* has launched nothing is turned down and changes nothing, and a stop of
\* that chat is acknowledged and sets running to false; a results query of
\* any chat is answered from the one list, whoever launched the campaign
\* that filled it.
C38_SharedFlag ==
    [][\A u \in SessionChats :
          /\ (OthersCampaign(u) /\ RegisterFrom(u))
                => /\ sent' = Message(u, "already_running", 0)
                   /\ UNCHANGED <<campaign, runs, loop>>
          /\ (OthersCampaign(u) /\ StopFrom(u))
                => /\ sent' = Message(u, "stop_requested", 0)
                   /\ campaign' = [campaign EXCEPT !.running = FALSE]
                   /\ UNCHANGED <<runs, loop>>
          /\ (campaign.results # <<>> /\ Receive(u, TextMessage(<<CmdResults>>)))
                => sent' = Message(u, "results", Len(campaign.results))
      ]_vars

\* The chat that has launched nothing has stopped the other chat's campaign
C38_Witness ==
    /\ sent = Message(2, "stop_requested", 0)
    /\ ~campaign.running
    /\ \A k \in Slots : runs[k].chat # 2
    /\ \E k \in InFlight : runs[k].chat = 1 /\ runs[k].wk[0].pc = "try"


\* The commands that only answer
AnswerOnly ==
    {<<CmdConfig>>, <<CmdStatus>>, <<CmdResults>>, <<CmdStats>>, <<CmdHelp>>,
     <<CmdStart>>}

\* The step changes CampaignState, a session, a file, a run or the place of
\* the command loop
StateChanged ==
    <<campaign, userConfigs, files, runs, loop>>' # <<campaign, userConfigs, files, runs, loop>>

\* C39: /config, /status, /results, /stats, /help and /start from a chat in
\* the idle wizard state, and a /stop received while running is false,
\* change neither CampaignState (running, startTime, results) nor a field of
\* a session, a file or a run: a step that changes one of them is not the
\* handling of one of these commands.  The /stop is answered "no campaign".
C39_QueriesChangeNothing ==
    [][\A u \in SessionChats :
          /\ StateChanged
                => \A text \in AnswerOnly :
                      ~(TakesCommands(u) /\ Receive(u, TextMessage(text)))
          /\ (~campaign.running /\ StopFrom(u))
                => /\ ~StateChanged
                   /\ sent' = Message(u, "no_campaign", 0)
      ]_vars

\* The stored results of a campaign have been shown and are still there,
\* while a campaign launched later is running
C39_Witness ==
    /\ sent.kind = "stats"
    /\ Len(campaign.results) = 2
    /\ \E k \in InFlight : runs[k].chat = 2
    /\ \E u \in SessionChats : userConfigs[u].FirstName = Ann


-----------------------------------------------------------------------------
(* Properties of a failed launch, checked under SpecLaunch *)

\* C40 as claimed: a launch whose identity file or target file cannot be
\* read leaves CampaignState.results and startTime as they were when the
\* launch command was received.
C40_Claimed ==
    [][(Accepts /\ (\/ files[loop'.launch.emailsFile] = NoFile
                    \/ files[loop'.launch.eventsFile] = NoFile))
          => /\ campaign'.results = campaign.results
             /\ campaign'.startTime = campaign.startTime
      ]_vars

=============================================================================
